---- MODULE Spec2Model ----
(***************************************************************************)
(* The LoRa physical-layer driver: the orchestrator LoRa<RK> (src/lib.rs)  *)
(* driving one chip of family A (sx1261_2) or family B (sx1276_7_8_9).     *)
(* One action per public operation of LoRa<RK>; every chip-level call the  *)
(* operation issues is logged in `calls`, and a call may fail wherever the *)
(* encoder's code can return an error.                                     *)
(***************************************************************************)
EXTENDS Integers, Sequences, FiniteSets, TLC

\* ------------------------------------------------------------------ bounds
\* at most this many flags are set in one interrupt bitmap the chip presents
MaxFlags == 3
\* at most this many bitmaps are read by one call of process_irq
MaxPolls == 2
\* consecutive successful sleep calls are counted up to this number
SleepRunCap == 2
\* buffers one transport transaction writes, at most
MaxBuffers == 2
\* length of the buffer one transport transaction reads into, at most
MaxReadLen == 2

\* channel frequencies the caller uses (Hz)
Freqs == {433000000, 868000000}

\* payload sizes handed to tx (the protocol limit is 255)
TxLens == {255, 256}
\* powers handed to prepare_for_tx
Powers == {14, 23}
\* symbol timeouts handed to prepare_for_rx
SymbolTimeouts == {0, 300}
\* caller's receive buffer length and the payload lengths a chip reports
RxBufLen == 2
RxLens == {1, 2, 3}

\* ------------------------------------------------------------ chip kinds
RadioTypes == {"SX1261", "STM32WLSX1262", "SX1276"}

Family(rt) == IF rt \in {"SX1261", "SX1262", "STM32WLSX1262"} THEN "A" ELSE "B"

RadioModes == {"Sleep", "Standby", "FrequencySynthesis", "Transmit", "Receive",
               "ReceiveDutyCycle", "ChannelActivityDetection"}

\* ------------------------------------------------------------- results
Ok == [ok |-> TRUE, err |-> "", info |-> <<>>, cad |-> FALSE]
OkCad(b) == [ok |-> TRUE, err |-> "", info |-> <<>>, cad |-> b]
OkLen(n) == [ok |-> TRUE, err |-> "", info |-> <<n>>, cad |-> FALSE]
Err(e) == [ok |-> FALSE, err |-> e, info |-> <<>>, cad |-> FALSE]
ErrInfo(e, i) == [ok |-> FALSE, err |-> e, info |-> i, cad |-> FALSE]

\* ------------------------------------------------------ chip-level calls
\* one call of a RadioKind method: its arguments and, once it has returned,
\* the error it returned ("" for Ok)
Call(name, mode, nums, flags) ==
    [name |-> name, mode |-> mode, nums |-> nums, flags |-> flags, err |-> ""]
C0(name) == Call(name, "", <<>>, {})

Flag(b, s) == IF b THEN {s} ELSE {}

\* errors of one transport transaction (SpiInterface::write / read)
TransportErrors == {"SPI"}
\* the sleep command is written without the busy wait
SleepTransportErrors == {"SPI"}

\* the error a call returns from its own parameter validation, "" if none
\* do_rx taking the caller's symbol timeout also for a continuous receive
SymbolTimeoutFinalB_AsRequested(rx_continuous_arg, symbol_timeout) == symbol_timeout

\* sx1276_7_8_9 do_rx: symbol_timeout_final, which is 0 for a continuous receive
SymbolTimeoutFinalB(rx_continuous_arg, symbol_timeout) ==
    IF rx_continuous_arg THEN 0 ELSE symbol_timeout

MustErr(rt, c) ==
    CASE c.name = "set_tx_rx_buffer_base_address" ->
           IF c.nums[1] > 255 \/ c.nums[2] > 255 THEN "InvalidBaseAddress" ELSE ""
      [] c.name = "set_tx_power_and_ramp_time" ->
           IF Family(rt) = "A"
           THEN IF rt = "SX1261"
                THEN IF ~(c.nums[1] >= -17 /\ c.nums[1] <= 15) THEN "InvalidOutputPower"
                     ELSE IF c.nums[1] = 15 /\ "mdltn" \in c.flags /\ c.nums[2] < 400000000
                          THEN "InvalidOutputPowerForFrequency" ELSE ""
                ELSE IF ~(c.nums[1] >= -9 /\ c.nums[1] <= 22) THEN "InvalidOutputPower" ELSE ""
           ELSE IF "boosted" \in c.flags
                THEN IF ~(c.nums[1] >= 2 /\ c.nums[1] <= 20) THEN "InvalidOutputPower" ELSE ""
                ELSE IF ~(c.nums[1] >= -4 /\ c.nums[1] <= 14) THEN "InvalidOutputPower" ELSE ""
      [] c.name = "do_rx" ->
           IF Family(rt) = "A"
           THEN IF "duty_cycle" \in c.flags /\ "rx_continuous" \in c.flags
                THEN "DutyCycleRxContinuousUnsupported" ELSE ""
           ELSE IF "duty_cycle" \in c.flags THEN "DutyCycleUnsupported"
                ELSE IF SymbolTimeoutFinalB("rx_continuous" \in c.flags, c.nums[1]) > 255
                     THEN "InvalidSymbolTimeout" ELSE ""
      [] c.name = "get_rx_payload" ->
           IF c.nums[1] > c.nums[2] THEN "PayloadSizeMismatch" ELSE ""
      [] OTHER -> ""

\* the errors a call can return from the board or the transport
MayErr(rt, c) ==
    IF Family(rt) = "A"
    THEN CASE c.name = "reset" -> {"Reset"}
           [] c.name = "ensure_ready" ->
                IF c.mode \in {"Sleep", "ReceiveDutyCycle"} THEN TransportErrors ELSE {"Busy"}
           [] c.name = "init_rf_switch" ->
                IF rt # "STM32WLSX1262" THEN TransportErrors ELSE {}
           [] c.name = "set_standby" -> TransportErrors \cup {"RfSwitchRx"}
           [] c.name = "set_sleep" -> {"RfSwitchRx"} \cup SleepTransportErrors \cup {"DelayError"}
           [] c.name = "update_retention_list" -> TransportErrors \cup {"RetentionListExceeded"}
           [] c.name = "do_tx" -> {"RfSwitchTx"} \cup TransportErrors
           [] c.name \in {"do_rx", "do_cad"} -> {"RfSwitchRx"} \cup TransportErrors
           [] c.name \in {"get_rx_payload", "get_rx_packet_status"} ->
                TransportErrors \cup {"OpError"}
           [] OTHER -> TransportErrors
    ELSE CASE c.name = "reset" -> {"Reset", "RfSwitchRx"} \cup SleepTransportErrors
           [] c.name \in {"ensure_ready", "init_rf_switch", "set_regulator_mode",
                          "update_retention_list", "calibrate_image"} -> {}
           [] c.name = "set_standby" -> TransportErrors \cup {"RfSwitchRx"}
           [] c.name = "set_sleep" -> {"RfSwitchRx"} \cup SleepTransportErrors
           [] c.name = "do_tx" -> {"RfSwitchTx"} \cup TransportErrors
           [] c.name \in {"do_rx", "do_cad"} -> {"RfSwitchRx"} \cup TransportErrors
           [] OTHER -> TransportErrors

\* what can fail before the call's validation is reached
PreErr(rt, c) ==
    IF Family(rt) = "B" /\ c.name = "do_rx" /\ MustErr(rt, c) = "InvalidSymbolTimeout"
    THEN {"RfSwitchRx"}
    ELSE IF c.name = "get_rx_payload" THEN MayErr(rt, c)
    ELSE {}

CallErrors(rt, c) ==
    IF MustErr(rt, c) # "" THEN {MustErr(rt, c)} \cup PreErr(rt, c) ELSE MayErr(rt, c)

\* set_sleep's return value: whether warm start is enabled
WarmStart(rt) == Family(rt) = "A"

\* ------------------------------------------------ running a list of calls
\* A run of `plan` under the `?` operator: k = 0 when every call succeeds,
\* otherwise the k-th call is the first to fail.
RunChoices(rt, plan) ==
    (IF \A n \in 1..Len(plan) : MustErr(rt, plan[n]) = "" THEN {0} ELSE {})
    \cup {k \in 1..Len(plan) : /\ CallErrors(rt, plan[k]) # {}
                               /\ \A j \in 1..(k-1) : MustErr(rt, plan[j]) = ""}

\* the calls issued: all of them, or those up to the one that failed with e
Issued(plan, k, e) ==
    IF k = 0 THEN plan
    ELSE [i \in 1..k |-> IF i = k THEN [plan[i] EXCEPT !.err = e] ELSE plan[i]]
\* number of calls of the plan that returned Ok
Done(plan, k) == IF k = 0 THEN Len(plan) ELSE k - 1

\* -------------------------------------------------- interrupt interpretation
IrqFlags(fam) ==
    IF fam = "A"
    THEN {"HEADER_ERROR", "CRC_ERROR", "RX_TX_TIMEOUT", "TX_DONE", "RX_DONE",
          "CAD_ACTIVITY_DETECTED", "CAD_DONE", "HEADER_VALID", "PREAMBLE_DETECTED",
          "SYNCWORD_VALID"}
    ELSE {"CRC_ERROR", "RX_TIMEOUT", "TX_DONE", "RX_DONE", "CAD_ACTIVITY_DETECTED",
          "CAD_DONE", "HEADER_VALID"}

\* the bitmaps a chip may present
Bitmaps(fam) == {b \in SUBSET IrqFlags(fam) : Cardinality(b) <= MaxFlags}

\* family A taking Receive alone for a receive mode
IsRx_ReceiveOnly(mode) == mode = "Receive"

\* family A's test for a receive mode
IsRx(mode) == mode \in {"Receive", "ReceiveDutyCycle"}

\* the first matching arm of family A's classification (sx1261_2 process_irq)
ArmA(mode, b) ==
    IF "HEADER_ERROR" \in b THEN "header_error"
    ELSE IF "CRC_ERROR" \in b THEN "crc_error"
    ELSE IF "RX_TX_TIMEOUT" \in b THEN "rx_tx_timeout"
    ELSE IF "TX_DONE" \in b /\ mode # "Transmit" THEN "unexpected_txdone"
    ELSE IF "RX_DONE" \in b /\ ~IsRx(mode) THEN "unexpected_rxdone"
    ELSE IF b \cap {"CAD_ACTIVITY_DETECTED", "CAD_DONE"} # {}
            /\ mode # "ChannelActivityDetection" THEN "unexpected_cad"
    ELSE IF "HEADER_VALID" \in b THEN "header_valid"
    ELSE IF "PREAMBLE_DETECTED" \in b THEN "preamble_detected"
    ELSE IF "SYNCWORD_VALID" \in b THEN "syncword_valid"
    ELSE IF "TX_DONE" \in b THEN "tx_done"
    ELSE IF "RX_DONE" \in b THEN "rx_done"
    ELSE IF "CAD_DONE" \in b THEN "cad_done"
    ELSE "continue"

\* family B's classification with the completion arms ahead of the error arms
ArmB_CompletionFirst(mode, b) ==
    IF "TX_DONE" \in b /\ mode = "Transmit" THEN "tx"
    ELSE IF "RX_DONE" \in b /\ mode = "Receive" THEN "rx"
    ELSE IF "CAD_DONE" \in b /\ mode = "ChannelActivityDetection" THEN "cad"
    ELSE IF "CRC_ERROR" \in b THEN "crc_error"
    ELSE IF "RX_TIMEOUT" \in b THEN "rx_timeout"
    ELSE IF "TX_DONE" \in b THEN "unexpected_tx"
    ELSE IF "RX_DONE" \in b THEN "unexpected_rx"
    ELSE IF b \cap {"CAD_ACTIVITY_DETECTED", "CAD_DONE"} # {} THEN "unexpected_cad"
    ELSE "continue"

\* the first matching arm of family B's classification (sx1276_7_8_9 process_irq)
ArmB(mode, b) ==
    IF "CRC_ERROR" \in b THEN "crc_error"
    ELSE IF "RX_TIMEOUT" \in b THEN "rx_timeout"
    ELSE IF "TX_DONE" \in b /\ mode # "Transmit" THEN "unexpected_tx"
    ELSE IF "RX_DONE" \in b /\ mode # "Receive" THEN "unexpected_rx"
    ELSE IF b \cap {"CAD_ACTIVITY_DETECTED", "CAD_DONE"} # {}
            /\ mode # "ChannelActivityDetection" THEN "unexpected_cad"
    ELSE IF "TX_DONE" \in b THEN "tx"
    ELSE IF "RX_DONE" \in b THEN "rx"
    ELSE IF "CAD_DONE" \in b THEN "cad"
    ELSE IF "HEADER_VALID" \in b THEN "continue"
    ELSE "continue"

Arm(fam, mode, b) == IF fam = "A" THEN ArmA(mode, b) ELSE ArmB(mode, b)

\* the value the arm returns; want_cad: an output parameter was passed
ArmResultA(arm, mode, b, want_cad) ==
    CASE arm = "header_error" -> Err("HeaderError")
      [] arm = "crc_error" ->
           IF IsRx(mode) THEN Err("CRCErrorOnReceive") ELSE Err("CRCErrorUnexpected")
      [] arm = "rx_tx_timeout" ->
           IF mode = "Transmit" THEN Err("TransmitTimeout")
           ELSE IF IsRx(mode) THEN Err("ReceiveTimeout") ELSE Err("TimeoutUnexpected")
      [] arm = "unexpected_txdone" -> Err("TransmitDoneUnexpected")
      [] arm = "unexpected_rxdone" -> Err("ReceiveDoneUnexpected")
      [] arm = "unexpected_cad" -> Err("CADUnexpected")
      [] arm = "cad_done" -> OkCad(want_cad /\ "CAD_ACTIVITY_DETECTED" \in b)
      [] OTHER -> Ok

ArmResultB(arm, mode, b, want_cad) ==
    CASE arm = "crc_error" ->
           IF mode = "Receive" THEN Err("CRCErrorOnReceive") ELSE Err("CRCErrorUnexpected")
      [] arm = "rx_timeout" ->
           IF mode = "Receive" THEN Err("ReceiveTimeout") ELSE Err("TimeoutUnexpected")
      [] arm = "unexpected_tx" -> Err("TransmitDoneUnexpected")
      [] arm = "unexpected_rx" -> Err("ReceiveDoneUnexpected")
      [] arm = "unexpected_cad" -> Err("CADUnexpected")
      [] arm = "cad" -> OkCad(want_cad /\ "CAD_ACTIVITY_DETECTED" \in b)
      [] OTHER -> Ok

ArmResult(fam, mode, b, want_cad) ==
    IF fam = "A" THEN ArmResultA(ArmA(mode, b), mode, b, want_cad)
    ELSE ArmResultB(ArmB(mode, b), mode, b, want_cad)

\* errors of one loop iteration before classification: the interrupt wait,
\* the read of the bitmap (family A also checks the status byte), the clear
PollErrors(fam) ==
    IF fam = "A" THEN {"Irq", "OpError"} \cup TransportErrors
    ELSE {"Irq"} \cup TransportErrors

ContinueBitmaps(fam, mode) == {b \in Bitmaps(fam) : Arm(fam, mode, b) = "continue"}

SeqsUpTo(S, n) == UNION {[1..m -> S] : m \in 0..n}

\* Every way one call of process_irq can return: the bitmaps it read, in
\* order, and its result.  All bitmaps but the last made the loop continue.
ProcessIrq(rt, mode, rx_cont, want_cad) ==
    LET fam == Family(rt)
        waits == SeqsUpTo(ContinueBitmaps(fam, mode), MaxPolls - 1)
        last == Bitmaps(fam) \ ContinueBitmaps(fam, mode)
    IN  {[irqs |-> Append(w, b), res |-> ArmResult(fam, mode, b, want_cad)] :
            w \in waits, b \in last}
        \cup {[irqs |-> w, res |-> Err(e)] : w \in waits, e \in PollErrors(fam)}
        \cup {[irqs |-> Append(w, b), res |-> Err(e)] :
                w \in waits, e \in TransportErrors,
                b \in {x \in last : fam = "A" /\ ~rx_cont /\ ArmA(mode, x) = "rx_done"}}

\* ------------------------------------------------------------------ state
VARIABLES
    radio_type,        \* the chip the orchestrator owns (RadioKind::get_radio_type)
    phase,             \* "created" (inside LoRa::new), "ready" (the caller may call),
                       \* "returned" (an operation has just returned),
                       \* "dropped" (LoRa::new returned Err)
    radio_mode,        \* LoRa.radio_mode
    rx_continuous,     \* LoRa.rx_continuous
    image_calibrated,  \* LoRa.image_calibrated
    op,                \* the last public operation and its arguments
    result,            \* what it returned
    calls,             \* the chip-level calls it issued, in order
    irqs,              \* the interrupt bitmaps its process_irq read, in order
    pirq,              \* what its process_irq returned (<< >> when not called)
    pre,               \* the orchestrator's fields when it was called
    cal_freq,          \* frequency the cached image calibration was made for
                       \* (0 while the cache is clear)
    steps,             \* the board and transport steps of its do_rx call, in order
    tx_pkt_params,     \* the caller's send PacketParams (tx's tx_pkt_params)
    receiving_buffer,  \* the caller's receive buffer (rx's receiving_buffer)
    sleeps,            \* length of the current run of successful sleep calls
    retention_list,    \* family A: the chip's RetentionList register block
    retention_op,      \* the last retention-list routine run on it, with its
                       \* argument, result, register writes and the block before
    mdltn_params,      \* the last create_modulation_params call: its arguments
                       \* and the Result<ModulationParams, RadioError> it returned
    pkt_params,        \* the last create_tx_packet_params / create_rx_packet_params
                       \* call: its arguments and the Result<PacketParams, RadioError>
    kind_call,         \* the last chip-level routine followed down to the transport:
                       \* its arguments, its result and the transfers it issued
    transaction        \* the last transport transaction: its arguments, its result
                       \* and the pin and bus operations it performed, in order

lora_vars == <<radio_type, phase, radio_mode, rx_continuous, image_calibrated,
               op, result, calls, irqs, pirq, pre, cal_freq, steps, tx_pkt_params,
               receiving_buffer, sleeps>>

\* chip registers the orchestrator's operations are followed through only as
\* calls (update_retention_list); RetentionSpec follows their contents
chip_vars == <<retention_list, retention_op>>

\* the parameter objects the caller builds through the orchestrator
params_vars == <<mdltn_params, pkt_params>>

\* chip-level routines and transport transactions followed on their own
kind_vars == <<kind_call, transaction>>

vars == <<lora_vars, chip_vars, params_vars, kind_vars>>

Op(name, nums, flags) == [name |-> name, nums |-> nums, flags |-> flags]

\* PacketParams as create_tx_packet_params builds it (payload_length 0)
CreatedTxPacketParams == [payload_length |-> 0]

\* the receive buffer as the caller hands it over: RxBufLen bytes, zeroed
FreshBuffer == [i \in 1..RxBufLen |-> 0]

\* sx1261_2: capacity of the retention list
MAX_NUMBER_REGS_IN_RETENTION == 4

\* the RetentionList block after reset: count 0, no slot written
EmptyRetentionList ==
    [count |-> 0, slots |-> [i \in 1..MAX_NUMBER_REGS_IN_RETENTION |-> <<0, 0>>]]

NoRetentionOp ==
    [name |-> "none", register |-> <<0, 0>>, result |-> Ok, writes |-> << >>,
     before |-> EmptyRetentionList]

NoModulationParams ==
    [spreading_factor |-> 0, bandwidth |-> "", coding_rate |-> "",
     frequency_in_hz |-> 0, err |-> "none", low_data_rate_optimize |-> 0]

\* the fields of a PacketParams
PacketFields(preamble_length, implicit_header, payload_length, crc_on, iq_inverted) ==
    [preamble_length |-> preamble_length, implicit_header |-> implicit_header,
     payload_length |-> payload_length, crc_on |-> crc_on, iq_inverted |-> iq_inverted]

NoPacketParams ==
    [name |-> "none", args |-> PacketFields(0, FALSE, 0, FALSE, FALSE), err |-> "",
     params |-> PacketFields(0, FALSE, 0, FALSE, FALSE)]

\* no chip-level routine followed yet
NoKindCall ==
    [name |-> "none", mode |-> "", nums |-> << >>, flags |-> {}, irqs |-> << >>,
     result |-> Ok, transfers |-> << >>]

\* no transport transaction followed yet
NoTransaction ==
    [name |-> "none", buffers |-> 0, items |-> 0, is_sleep_command |-> FALSE,
     result |-> Ok, trace |-> << >>]

Fields == [mode |-> radio_mode, rx_continuous |-> rx_continuous,
           image_calibrated |-> image_calibrated]

Init ==
    /\ radio_type \in RadioTypes
    /\ phase = "created"
    /\ radio_mode = "Sleep"
    /\ rx_continuous = FALSE
    /\ image_calibrated = FALSE
    /\ op = Op("none", <<>>, {})
    /\ result = Ok
    /\ calls = <<>>
    /\ irqs = <<>>
    /\ pirq = <<>>
    /\ pre = [mode |-> "Sleep", rx_continuous |-> FALSE, image_calibrated |-> FALSE]
    /\ cal_freq = 0
    /\ steps = << >>
    /\ tx_pkt_params = CreatedTxPacketParams
    /\ receiving_buffer = FreshBuffer
    /\ sleeps = 0
    /\ retention_list = EmptyRetentionList
    /\ retention_op = NoRetentionOp
    /\ mdltn_params = NoModulationParams
    /\ pkt_params = NoPacketParams
    /\ kind_call = NoKindCall
    /\ transaction = NoTransaction

\* The board's antenna switch is "off", "rx" or "tx", and "unknown" before
\* the first call that sets it.
\* the position a chip-level call asks the board's switch for, "" if the
\* call has no switch call: set_standby, set_sleep (and through it family B's
\* reset) disable it, do_tx enables transmit, do_rx and do_cad receive
SwitchRequest(rt, c) ==
    CASE c.name \in {"set_standby", "set_sleep"} -> "off"
      [] c.name = "reset" -> IF Family(rt) = "B" THEN "off" ELSE ""
      [] c.name = "do_tx" -> "tx"
      [] c.name \in {"do_rx", "do_cad"} -> "rx"
      [] OTHER -> ""

\* set_standby leaving the switch as it is
SwitchAfterCall_StandbyKeeps(rt, sw, c) ==
    IF c.name = "set_standby" \/ SwitchRequest(rt, c) = "" THEN {sw}
    ELSE IF c.err = "" THEN {SwitchRequest(rt, c)}
    ELSE IF c.err \in {"RfSwitchRx", "RfSwitchTx"} THEN {sw, SwitchRequest(rt, c)}
    ELSE IF c.err \in {"Reset", "DutyCycleUnsupported", "DutyCycleRxContinuousUnsupported"}
    THEN {sw}
    ELSE {SwitchRequest(rt, c)}

\* The positions the switch can be in after the call c that found it at sw.
\* A switch call that returns Err may or may not have moved the switch.  A
\* call that fails before its switch call leaves it: set_standby writes the
\* command first, reset resets first, do_rx refuses duty-cycle requests
\* first; every other failure comes after the switch call.
SwitchAfterCall(rt, sw, c) ==
    IF SwitchRequest(rt, c) = "" THEN {sw}
    ELSE IF c.err = "" THEN {SwitchRequest(rt, c)}
    ELSE IF c.err \in {"RfSwitchRx", "RfSwitchTx"} THEN {sw, SwitchRequest(rt, c)}
    ELSE IF c.name = "set_standby"
            \/ c.err \in {"Reset", "DutyCycleUnsupported", "DutyCycleRxContinuousUnsupported"}
    THEN {sw}
    ELSE {SwitchRequest(rt, c)}

RECURSIVE SwitchAfter(_, _, _)
\* the positions the switch can be in after the calls cs, issued in order
SwitchAfter(rt, sws, cs) ==
    IF cs = << >> THEN sws
    ELSE SwitchAfter(rt, UNION {SwitchAfterCall(rt, sw, Head(cs)) : sw \in sws}, Tail(cs))

\* what every operation records when it returns
Return(o, res, cs, iq) ==
    /\ op' = o
    /\ result' = res
    /\ calls' = cs
    /\ irqs' = iq.irqs
    /\ pirq' = iq.res
    /\ pre' = Fields
    /\ sleeps' = IF o.name = "sleep" /\ res.ok
                 THEN (IF sleeps < SleepRunCap THEN sleeps + 1 ELSE sleeps) ELSE 0
    /\ phase' = IF o.name = "new" /\ ~res.ok THEN "dropped" ELSE "returned"
    /\ UNCHANGED <<radio_type, chip_vars, params_vars, kind_vars>>

\* what an operation did below the chip-level calls and to the caller's objects
Effects(st, pkt, buf) ==
    /\ steps' = st
    /\ tx_pkt_params' = pkt
    /\ receiving_buffer' = buf

NoEffects == Effects(<< >>, tx_pkt_params, receiving_buffer)

\* process_irq was not called
NoIrq == [irqs |-> <<>>, res |-> <<>>]
\* process_irq read i.irqs and returned i.res
Irq(i) == [irqs |-> i.irqs, res |-> <<i.res>>]

\* ---------------------------------------------------------------- plans
EnsureReady(mode) == Call("ensure_ready", mode, <<>>, {})
SetIrqParams(mode) == Call("set_irq_params", mode, <<>>, {})
CalibrateImage(f) == Call("calibrate_image", "", <<f>>, {})
SetChannel(f) == Call("set_channel", "", <<f>>, {})

\* LoRa::init with set_regulator_mode issued before set_oscillator
InitPlan_RegulatorFirst(mode, public) ==
    << C0("reset"),
       EnsureReady(mode),
       C0("init_rf_switch"),
       C0("set_standby"),
       Call("set_lora_modem", "", <<>>, Flag(public, "public")),
       C0("set_regulator_mode"),
       C0("set_oscillator"),
       Call("set_tx_rx_buffer_base_address", "", <<0, 0>>, {}),
       Call("set_tx_power_and_ramp_time", "", <<0>>, {}),
       SetIrqParams("Standby"),
       C0("update_retention_list") >>

\* LoRa::init, in program order; the irq masks are programmed for the mode
\* the orchestrator holds after set_standby
InitPlan(mode, public) ==
    << C0("reset"),
       EnsureReady(mode),
       C0("init_rf_switch"),
       C0("set_standby"),
       Call("set_lora_modem", "", <<>>, Flag(public, "public")),
       C0("set_oscillator"),
       C0("set_regulator_mode"),
       Call("set_tx_rx_buffer_base_address", "", <<0, 0>>, {}),
       Call("set_tx_power_and_ramp_time", "", <<0>>, {}),
       SetIrqParams("Standby"),
       C0("update_retention_list") >>

\* index of set_standby in InitPlan
InitStandbyAt == 4

\* LoRa::sleep without the test of the mode
SleepPlan_Unguarded(mode) == << EnsureReady(mode), C0("set_sleep") >>

\* LoRa::sleep: nothing is issued when the mode is already Sleep
SleepPlan(mode) ==
    IF mode # "Sleep" THEN << EnsureReady(mode), C0("set_sleep") >> ELSE << >>

\* LoRa::sleep ignoring what set_sleep returned
SleepInvalidates_Never(warm_start_enabled) == FALSE

\* LoRa::sleep: the cache is dropped when set_sleep reports no warm start
SleepInvalidates(warm_start_enabled) == ~warm_start_enabled

\* the opening with set_standby issued whatever the mode
StandbyPlan_Always(mode) == << EnsureReady(mode), C0("set_standby") >>

\* the opening of prepare_for_tx, tx, prepare_for_rx and prepare_for_cad
StandbyPlan(mode) ==
    IF mode # "Standby" THEN << EnsureReady(mode), C0("set_standby") >>
    ELSE << EnsureReady(mode) >>

\* image calibration, skipped when the cache flag is set
CalPlan(calibrated, f) == IF ~calibrated THEN << CalibrateImage(f) >> ELSE << >>

\* the recovery with its two calls exchanged
RecoveryPlan_StandbyFirst(mode) == << C0("set_standby"), EnsureReady(mode) >>

\* the recovery of tx, rx and cad after process_irq returned an error
RecoveryPlan(mode) == << EnsureReady(mode), C0("set_standby") >>

\* the recovery assigning the mode before its calls
RecoveredMode_Early(mode, all_ok) == "Standby"

\* the mode after the recovery: Standby once both calls returned Ok
RecoveredMode(mode, all_ok) == IF all_ok THEN "Standby" ELSE mode

\* LoRa::rx never recovering
RxRecovers_Never(rx_cont) == FALSE

\* LoRa::rx recovering whatever the continuous flag
RxRecovers_Always(rx_cont) == TRUE

\* LoRa::rx recovers only outside continuous receive
RxRecovers(rx_cont) == ~rx_cont

\* the mode tx leaves when process_irq returned Ok
TxOkMode(mode) == mode

\* the first error of a run
RunErrors(rt, plan, k) == IF k = 0 THEN {""} ELSE CallErrors(rt, plan[k])

\* --------------------------------------------------------------- actions
\* LoRa::init
InitStep(name, public, k, e) ==
    LET plan == InitPlan(radio_mode, public)
        standby == Done(plan, k) >= InitStandbyAt
    IN  /\ image_calibrated' = FALSE
        /\ radio_mode' = IF standby THEN "Standby" ELSE radio_mode
        /\ rx_continuous' = IF standby THEN FALSE ELSE rx_continuous
        /\ cal_freq' = 0
        /\ NoEffects
        /\ Return(Op(name, <<>>, Flag(public, "public")),
                  IF k = 0 THEN Ok ELSE Err(e), Issued(plan, k, e), NoIrq)

\* LoRa::new: the struct is built asleep and initialised; Err drops it
new ==
    /\ phase = "created"
    /\ \E public \in BOOLEAN :
       \E k \in RunChoices(radio_type, InitPlan(radio_mode, public)) :
       \E e \in RunErrors(radio_type, InitPlan(radio_mode, public), k) :
          InitStep("new", public, k, e)

\* LoRa::init called again on a live orchestrator
init ==
    /\ phase = "ready"
    /\ \E public \in BOOLEAN :
       \E k \in RunChoices(radio_type, InitPlan(radio_mode, public)) :
       \E e \in RunErrors(radio_type, InitPlan(radio_mode, public), k) :
          InitStep("init", public, k, e)

\* LoRa::sleep
sleep ==
    /\ phase = "ready"
    /\ LET plan == SleepPlan(radio_mode) IN
       \E k \in RunChoices(radio_type, plan) :
       \E e \in RunErrors(radio_type, plan, k) :
          /\ radio_mode' = IF k = 0 THEN "Sleep" ELSE radio_mode
          /\ image_calibrated' =
                IF k = 0 /\ plan # << >> /\ SleepInvalidates(WarmStart(radio_type))
                THEN FALSE ELSE image_calibrated
          /\ cal_freq' =
                IF k = 0 /\ plan # << >> /\ SleepInvalidates(WarmStart(radio_type))
                THEN 0 ELSE cal_freq
          /\ UNCHANGED rx_continuous
          /\ NoEffects
          /\ Return(Op("sleep", <<>>, {}), IF k = 0 THEN Ok ELSE Err(e),
                    Issued(plan, k, e), NoIrq)

\* the target mode assigned one call early, before the last configuration call
ModeAfter_Early(mode, plan, k, upto, target) ==
    IF Done(plan, k) >= upto - 1 THEN target
    ELSE IF Done(plan, k) >= Len(StandbyPlan(mode)) THEN "Standby"
    ELSE mode

\* the mode after a run that opens with StandbyPlan: Standby once the
\* opening is through, `target` once the first `upto` calls are through
ModeAfter(mode, plan, k, upto, target) ==
    IF Done(plan, k) >= upto THEN target
    ELSE IF Done(plan, k) >= Len(StandbyPlan(mode)) THEN "Standby"
    ELSE mode

\* the cache flag after a run whose calibrate_image, if any, sits at `at`
CalAfter(calibrated, plan, k, at) == calibrated \/ Done(plan, k) >= at

\* LoRa::prepare_for_tx
prepare_for_tx ==
    /\ phase = "ready"
    /\ \E f \in Freqs, power \in Powers, boosted \in BOOLEAN :
       LET plan == StandbyPlan(radio_mode) \o
                   << Call("set_modulation_params", "", <<f>>, {}),
                      Call("set_tx_power_and_ramp_time", "", <<power, f>>,
                           {"mdltn", "tx_prep"} \cup Flag(boosted, "boosted")) >>
       IN \E k \in RunChoices(radio_type, plan) :
          \E e \in RunErrors(radio_type, plan, k) :
             /\ rx_continuous' = FALSE
             /\ radio_mode' = ModeAfter(radio_mode, plan, k, Len(plan) + 1, "Standby")
             /\ UNCHANGED <<image_calibrated, cal_freq>>
             /\ NoEffects
             /\ Return(Op("prepare_for_tx", <<f, power>>, Flag(boosted, "boosted")),
                       IF k = 0 THEN Ok ELSE Err(e), Issued(plan, k, e), NoIrq)

\* timeouts handed to tx and prepare_for_rx (ms)
TxTimeout == 1000
RxTimeout == 1000

\* PacketParams::set_payload_length accepting 256
PayloadLengthOk_OffByOne(n) == n <= 256

\* PacketParams::set_payload_length: the bound it tests
PayloadLengthOk(n) == n <= 255

\* PacketParams::set_payload_length: the object afterwards (`as u8`)
SetPayloadLength(params, n) ==
    IF PayloadLengthOk(n) THEN [params EXCEPT !.payload_length = n % 256]
    ELSE params

\* the error value of a failed call
ErrOf(c, e) == IF e = "PayloadSizeMismatch" THEN ErrInfo(e, c.nums) ELSE Err(e)

\* the part of tx before process_irq, for a payload the setter accepts
TxPlan(mode, calibrated, f, len) ==
    StandbyPlan(mode) \o
    << Call("set_packet_params", "", <<len>>, {}) >> \o
    CalPlan(calibrated, f) \o
    << SetChannel(f),
       Call("set_payload", "", <<len>>, {}),
       SetIrqParams("Transmit"),
       Call("do_tx", "", <<TxTimeout>>, {}) >>

\* the Err arm of tx, rx and cad: `E` is what process_irq returned, `head`
\* the calls issued before it, `mode` the orchestrator's mode
Recover(o, head, iq, E, mode) ==
    LET plan == RecoveryPlan(mode) IN
    \E k \in RunChoices(radio_type, plan) :
    \E e \in RunErrors(radio_type, plan, k) :
       /\ radio_mode' = RecoveredMode(mode, k = 0)
       /\ Return(o, IF k = 0 THEN E ELSE Err(e), head \o Issued(plan, k, e), iq)

\* LoRa::tx
tx ==
    /\ phase = "ready"
    /\ rx_continuous' = FALSE
    /\ \E f \in Freqs, len \in TxLens :
       LET o == Op("tx", <<f, len>>, {})
           n1 == Len(StandbyPlan(radio_mode))
       IN
       IF ~PayloadLengthOk(len)
       THEN LET plan == StandbyPlan(radio_mode) IN
            \E k \in RunChoices(radio_type, plan) :
            \E e \in RunErrors(radio_type, plan, k) :
               /\ radio_mode' = ModeAfter(radio_mode, plan, k, Len(plan) + 1, "Standby")
               /\ UNCHANGED <<image_calibrated, cal_freq>>
               /\ Effects(<< >>,
                          IF k = 0 THEN SetPayloadLength(tx_pkt_params, len)
                          ELSE tx_pkt_params,
                          receiving_buffer)
               /\ Return(o, IF k = 0 THEN ErrInfo("PayloadSizeUnexpected", <<len>>)
                            ELSE Err(e), Issued(plan, k, e), NoIrq)
       ELSE LET plan == TxPlan(radio_mode, image_calibrated, f, len) IN
            \E k \in RunChoices(radio_type, plan) :
            \E e \in RunErrors(radio_type, plan, k) :
               /\ image_calibrated' = CalAfter(image_calibrated, plan, k, n1 + 2)
               /\ cal_freq' = IF ~image_calibrated /\ Done(plan, k) >= n1 + 2
                              THEN f ELSE cal_freq
               /\ Effects(<< >>,
                          IF Done(plan, k) >= n1
                          THEN SetPayloadLength(tx_pkt_params, len)
                          ELSE tx_pkt_params,
                          receiving_buffer)
               /\ IF k # 0
                  THEN /\ radio_mode' = ModeAfter(radio_mode, plan, k, Len(plan) - 2, "Transmit")
                       /\ Return(o, Err(e), Issued(plan, k, e), NoIrq)
                  ELSE \E i \in ProcessIrq(radio_type, "Transmit", FALSE, FALSE) :
                          IF i.res.ok
                          THEN /\ radio_mode' = TxOkMode("Transmit")
                               /\ Return(o, Ok, plan, Irq(i))
                          ELSE Recover(o, plan, Irq(i), i.res, "Transmit")

\* prepare_for_rx selecting Receive whatever the duty-cycle argument
RxTargetMode_ReceiveOnly(duty_cycle) == "Receive"

\* the mode prepare_for_rx selects
RxTargetMode(duty_cycle) == IF duty_cycle THEN "ReceiveDutyCycle" ELSE "Receive"

RxPlan(mode, calibrated, f, duty, cont, boosted, symbol_timeout) ==
    StandbyPlan(mode) \o
    << Call("set_modulation_params", "", <<f>>, {}),
       Call("set_packet_params", "", <<RxBufLen>>, {}) >> \o
    CalPlan(calibrated, f) \o
    << SetChannel(f),
       SetIrqParams(RxTargetMode(duty)),
       Call("do_rx", "", <<symbol_timeout, RxTimeout>>,
            Flag(duty, "duty_cycle") \cup Flag(cont, "rx_continuous")
              \cup Flag(boosted, "boosted")) >>

\* LoRa::prepare_for_rx
\* one step of do_rx below the RadioKind call: the board's antenna switch or
\* one transfer through the interface
Step(kind, target, value) == [kind |-> kind, target |-> target, value |-> value]

\* arithmetic on u8
U8(x) == x % 256

Min(a, b) == IF a < b THEN a ELSE b

\* sx1261_2: the largest symbol count the symbol-timeout command takes
SX126X_MAX_LORA_SYMB_NUM_TIMEOUT == 248

\* one turn of the loop dropping the low bits of the mantissa
MantShift_Truncating(mant) == mant \div 4

\* sx1261_2 set_lora_symbol_num_timeout, one turn of its loop:
\* mant = (mant + 3) >> 2
MantShift(mant) == U8(mant + 3) \div 4

RECURSIVE MantExp(_, _)
\* sx1261_2 set_lora_symbol_num_timeout: while mant > 31 { ...; exp += 1 }
MantExp(mant, exp) ==
    IF mant > 31 THEN MantExp(MantShift(mant), U8(exp + 1))
    ELSE [mant |-> mant, exp |-> exp]

\* sx1261_2 set_lora_symbol_num_timeout: the mantissa and exponent it derives
\* from symbol_num
SymbolMantExp(symbol_num) ==
    MantExp(U8(U8(Min(symbol_num, SX126X_MAX_LORA_SYMB_NUM_TIMEOUT)) + 1) \div 2, 0)

\* sx1261_2 set_lora_symbol_num_timeout, the writes of a call that runs to its
\* end: reg = mant << ((2 * exp) + 1) with the symbol-timeout command, then
\* reg = exp + (mant << 3) to the SynchTimeout register when symbol_num != 0
SymbolTimeoutWritesA(symbol_num) ==
    LET m == SymbolMantExp(symbol_num)
    IN << Step("write", "SetLoRaSymbTimeout", U8(m.mant * 2^((2 * m.exp) + 1))) >>
       \o (IF symbol_num # 0
           THEN << Step("write", "SynchTimeout", U8(m.exp + U8(m.mant * 8))) >>
           ELSE << >>)

\* RadioKind::do_rx, the steps of a call that runs to its end
DoRxSteps(rt, c) ==
    IF Family(rt) = "A"
    THEN LET symbol_timeout_final ==
                 IF "duty_cycle" \in c.flags \/ "rx_continuous" \in c.flags
                 THEN 0 ELSE c.nums[1]
         IN << Step("switch", "enable_rf_switch_rx", 0),
               Step("write", "SetStopRxTimerOnPreamble", 0) >>
            \o SymbolTimeoutWritesA(symbol_timeout_final)
            \o << Step("read", "IQPolarity", 0),
                  Step("write", "IQPolarity", 0),
                  Step("write", "RxGain", 0),
                  Step("write", IF "duty_cycle" \in c.flags
                                THEN "SetRxDutyCycle" ELSE "SetRx", 0) >>
    ELSE LET symbol_timeout_final ==
                 SymbolTimeoutFinalB("rx_continuous" \in c.flags, c.nums[1])
         IN << Step("switch", "enable_rf_switch_rx", 0),
               Step("write", "RegSymbTimeoutLsb", U8(symbol_timeout_final)),
               Step("write", "RegLna", 0),
               Step("write", "RegFifoAddrPtr", 0),
               Step("write", "RegPayloadLength", 255),
               Step("write", "RegOpMode", 0) >>

\* RadioKind::do_rx testing its arguments only after the antenna switch
DoRxChecked_AfterSwitch(rt, c) == 1

\* RadioKind::do_rx: how many steps are behind it when it rejects its arguments
DoRxChecked(rt, c) ==
    IF MustErr(rt, c) = "InvalidSymbolTimeout" THEN 1 ELSE 0

\* the error a step fails with can come from this step
StepFails(st, e) ==
    IF st.kind = "switch" THEN e = "RfSwitchRx" ELSE e \in TransportErrors

\* the steps do_rx took when the run of plan stopped at call k with error e
\* (do_rx is the last call of plan; the failing step is the last one listed)
DoRxIssued(rt, plan, k, e) ==
    LET c == plan[Len(plan)]
        full == DoRxSteps(rt, c)
    IN IF k = 0 THEN {full}
       ELSE IF k < Len(plan) THEN {<< >>}
       ELSE IF e = MustErr(rt, c) THEN {SubSeq(full, 1, DoRxChecked(rt, c))}
       ELSE {SubSeq(full, 1, j) : j \in {i \in 1..Len(full) : StepFails(full[i], e)}}

prepare_for_rx ==
    /\ phase = "ready"
    /\ \E f \in Freqs, duty \in BOOLEAN, cont \in BOOLEAN, boosted \in BOOLEAN,
          st \in SymbolTimeouts :
       LET plan == RxPlan(radio_mode, image_calibrated, f, duty, cont, boosted, st)
           n1 == Len(StandbyPlan(radio_mode))
       IN
       \E k \in RunChoices(radio_type, plan) :
       \E e \in RunErrors(radio_type, plan, k) :
          /\ rx_continuous' = cont
          /\ image_calibrated' = CalAfter(image_calibrated, plan, k, n1 + 3)
          /\ cal_freq' = IF ~image_calibrated /\ Done(plan, k) >= n1 + 3
                         THEN f ELSE cal_freq
          /\ radio_mode' = ModeAfter(radio_mode, plan, k, Len(plan) - 2, RxTargetMode(duty))
          /\ \E ss \in DoRxIssued(radio_type, plan, k, e) :
                Effects(ss, tx_pkt_params, receiving_buffer)
          /\ Return(Op("prepare_for_rx", <<f, st>>,
                       Flag(duty, "duty_cycle") \cup Flag(cont, "rx_continuous")
                         \cup Flag(boosted, "boosted")),
                    IF k = 0 THEN Ok ELSE Err(e), Issued(plan, k, e), NoIrq)

\* the byte the chip holds at position i of the received payload
ChipByte(i) == 16 + i

\* the buffer after the first n payload bytes were copied into it
Copied(buf, n) == [i \in 1..Len(buf) |-> IF i <= n THEN ChipByte(i) ELSE buf[i]]

\* get_rx_payload filling the buffer with as much of the payload as fits
CopiedCounts_Truncating(c, k, e) ==
    {IF c.nums[1] <= c.nums[2] THEN c.nums[1] ELSE c.nums[2]}

\* RadioKind::get_rx_payload: how many bytes it copied when the run of
\* << get_rx_payload, get_rx_packet_status >> stopped at call k with error e
\* (length check and status check come before the copy; a failed transfer
\* ends the copy at any byte)
CopiedCounts(c, k, e) ==
    IF k # 1 THEN {c.nums[1]}
    ELSE IF e \in TransportErrors /\ c.nums[1] <= c.nums[2] THEN 0..c.nums[1]
    ELSE {0}

\* LoRa::rx
rx ==
    /\ phase = "ready"
    /\ UNCHANGED <<rx_continuous, image_calibrated, cal_freq>>
    /\ LET o == Op("rx", <<RxBufLen>>, {}) IN
       \E i \in ProcessIrq(radio_type, radio_mode, rx_continuous, FALSE) :
          IF i.res.ok
          THEN \E plen \in RxLens :
               LET plan == << Call("get_rx_payload", "", <<plen, RxBufLen>>, {}),
                              C0("get_rx_packet_status") >>
               IN \E k \in RunChoices(radio_type, plan) :
                  \E e \in RunErrors(radio_type, plan, k) :
                     /\ UNCHANGED radio_mode
                     /\ \E n \in CopiedCounts(plan[1], k, e) :
                           Effects(<< >>, tx_pkt_params, Copied(receiving_buffer, n))
                     /\ Return(o, IF k = 0 THEN OkLen(plen) ELSE ErrOf(plan[k], e),
                               Issued(plan, k, e), Irq(i))
          ELSE IF RxRecovers(rx_continuous)
          THEN NoEffects /\ Recover(o, <<>>, Irq(i), i.res, radio_mode)
          ELSE /\ UNCHANGED radio_mode
               /\ NoEffects
               /\ Return(o, i.res, <<>>, Irq(i))

CadPlan(mode, calibrated, f, boosted) ==
    StandbyPlan(mode) \o
    << Call("set_modulation_params", "", <<f>>, {}) >> \o
    CalPlan(calibrated, f) \o
    << SetChannel(f),
       SetIrqParams("ChannelActivityDetection"),
       Call("do_cad", "", <<f>>, Flag(boosted, "boosted")) >>

\* LoRa::prepare_for_cad
prepare_for_cad ==
    /\ phase = "ready"
    /\ \E f \in Freqs, boosted \in BOOLEAN :
       LET plan == CadPlan(radio_mode, image_calibrated, f, boosted)
           n1 == Len(StandbyPlan(radio_mode))
       IN
       \E k \in RunChoices(radio_type, plan) :
       \E e \in RunErrors(radio_type, plan, k) :
          /\ rx_continuous' = FALSE
          /\ image_calibrated' = CalAfter(image_calibrated, plan, k, n1 + 2)
          /\ cal_freq' = IF ~image_calibrated /\ Done(plan, k) >= n1 + 2
                         THEN f ELSE cal_freq
          /\ radio_mode' = ModeAfter(radio_mode, plan, k, Len(plan) - 2,
                                     "ChannelActivityDetection")
          /\ NoEffects
          /\ Return(Op("prepare_for_cad", <<f>>, Flag(boosted, "boosted")),
                    IF k = 0 THEN Ok ELSE Err(e), Issued(plan, k, e), NoIrq)

\* LoRa::cad
cad ==
    /\ phase = "ready"
    /\ UNCHANGED <<rx_continuous, image_calibrated, cal_freq>>
    /\ NoEffects
    /\ LET o == Op("cad", <<>>, {}) IN
       \E i \in ProcessIrq(radio_type, radio_mode, rx_continuous, TRUE) :
          IF i.res.ok
          THEN /\ UNCHANGED radio_mode
               /\ Return(o, i.res, <<>>, Irq(i))
          ELSE Recover(o, <<>>, Irq(i), i.res, radio_mode)

\* the caller takes the returned value; the record of the call is dropped,
\* and the next call gets newly created packet parameters and a fresh buffer
resume ==
    /\ phase = "returned"
    /\ phase' = "ready"
    /\ op' = Op("none", <<>>, {})
    /\ result' = Ok
    /\ calls' = <<>>
    /\ irqs' = <<>>
    /\ pirq' = <<>>
    /\ pre' = Fields
    /\ steps' = << >>
    /\ tx_pkt_params' = CreatedTxPacketParams
    /\ receiving_buffer' = FreshBuffer
    /\ UNCHANGED <<radio_type, radio_mode, rx_continuous, image_calibrated,
                   cal_freq, sleeps, chip_vars, params_vars, kind_vars>>

Next ==
    \/ new
    \/ init
    \/ sleep
    \/ prepare_for_tx
    \/ tx
    \/ prepare_for_rx
    \/ rx
    \/ prepare_for_cad
    \/ cad
    \/ resume

Spec == Init /\ [][Next]_vars

\* ------------------------------------------- family A: the retention list
\* registers handed to add_register_to_retention_list, as (addr1, addr2);
\* some share one byte, so that both bytes matter to the comparison
Registers == {<<8, 172>>, <<8, 137>>, <<7, 172>>, <<7, 54>>, <<9, 2>>}

\* the two registers update_retention_list adds
RxGain == <<8, 172>>
TxModulation == <<8, 137>>

\* the comparison looking at addr1 only
InRetentionList_FirstByte(buffer, register) ==
    \E i \in 1..buffer.count : register[1] = buffer.slots[i][1]

\* add_register_to_retention_list: the register is among the first `count`
\* entries read back
InRetentionList(buffer, register) ==
    \E i \in 1..buffer.count :
       register[1] = buffer.slots[i][1] /\ register[2] = buffer.slots[i][2]

\* the capacity test letting every register in
RetentionHasRoom_Always(number_of_registers) == TRUE

\* add_register_to_retention_list: the capacity test
RetentionHasRoom(number_of_registers) ==
    number_of_registers < MAX_NUMBER_REGS_IN_RETENTION

\* the block add_register_to_retention_list writes back
Appended(buffer, register) ==
    [count |-> buffer.count + 1,
     slots |-> [i \in 1..MAX_NUMBER_REGS_IN_RETENTION |->
                  IF i = buffer.count + 1 THEN register ELSE buffer.slots[i]]]

\* add_register_to_retention_list on the block `list`: every way it can go,
\* as [result, list afterwards, writes issued].  The read or the write can
\* fail in the transport; a write that fails has reached the chip wholly or
\* not at all.
AddOutcomes(list, register) ==
    {[result |-> Err(e), list |-> list, writes |-> << >>] : e \in TransportErrors}
    \cup
    (IF InRetentionList(list, register)
     THEN {[result |-> Ok, list |-> list, writes |-> << >>]}
     ELSE IF RetentionHasRoom(list.count)
     THEN LET buffer == Appended(list, register) IN
          {[result |-> Ok, list |-> buffer, writes |-> <<buffer>>]}
          \cup {[result |-> Err(e), list |-> l, writes |-> <<buffer>>] :
                  e \in TransportErrors, l \in {list, buffer}}
     ELSE {[result |-> Err("RetentionListExceeded"), list |-> list, writes |-> << >>]})

RetentionOp(name, register, o, before) ==
    [name |-> name, register |-> register, result |-> o.result,
     writes |-> o.writes, before |-> before]

\* SX1261_2::add_register_to_retention_list
add_register_to_retention_list ==
    /\ \E register \in Registers :
       \E o \in AddOutcomes(retention_list, register) :
          /\ retention_list' = o.list
          /\ retention_op' = RetentionOp("add_register_to_retention_list", register,
                                         o, retention_list)
    /\ UNCHANGED <<lora_vars, params_vars, kind_vars>>

\* SX1261_2::update_retention_list: RxGain, then under `?` TxModulation
update_retention_list ==
    /\ \E o1 \in AddOutcomes(retention_list, RxGain) :
          IF ~o1.result.ok
          THEN /\ retention_list' = o1.list
               /\ retention_op' = RetentionOp("update_retention_list", <<0, 0>>,
                                              o1, retention_list)
          ELSE \E o2 \in AddOutcomes(o1.list, TxModulation) :
               /\ retention_list' = o2.list
               /\ retention_op' = RetentionOp("update_retention_list", <<0, 0>>,
                                              [o2 EXCEPT !.writes = o1.writes \o o2.writes],
                                              retention_list)
    /\ UNCHANGED <<lora_vars, params_vars, kind_vars>>

\* a family A chip after reset
RetentionInit == Init /\ radio_type = "SX1261"

RetentionNext ==
    \/ add_register_to_retention_list
    \/ update_retention_list

RetentionSpec == RetentionInit /\ [][RetentionNext]_vars

\* ------------------------------------------------- modulation parameters
\* SpreadingFactor::_5 .. _12, Bandwidth and CodingRate
SpreadingFactors == {5, 6, 7, 8, 9, 10, 11, 12}
Bandwidths ==
    {"_7KHz", "_10KHz", "_15KHz", "_20KHz", "_31KHz", "_41KHz", "_62KHz",
     "_125KHz", "_250KHz", "_500KHz"}
CodingRates == {"_4_5", "_4_6", "_4_7", "_4_8"}

\* channel frequencies handed to create_modulation_params (Hz)
ChannelFreqs == {399999999, 400000000, 868000000}

\* Bandwidth::value_in_hz
value_in_hz(bandwidth) ==
    CASE bandwidth = "_7KHz" -> 7810
      [] bandwidth = "_10KHz" -> 10420
      [] bandwidth = "_15KHz" -> 15630
      [] bandwidth = "_20KHz" -> 20830
      [] bandwidth = "_31KHz" -> 31250
      [] bandwidth = "_41KHz" -> 41670
      [] bandwidth = "_62KHz" -> 62500
      [] bandwidth = "_125KHz" -> 125000
      [] bandwidth = "_250KHz" -> 250000
      [] bandwidth = "_500KHz" -> 500000

\* radio_kind_params::spreading_factor_value: the factor's number
spreading_factor_value(spreading_factor) == spreading_factor

\* the errors spreading_factor_value, bandwidth_value and coding_rate_value
\* can return; which values each family's tables refuse is left open
ValidationErrors ==
    {"UnavailableSpreadingFactor", "UnavailableBandwidth", "UnavailableCodingRate"}

\* the frequency test refusing 400 MHz itself
InvalidBandwidthForFrequency_Inclusive(bandwidth, frequency_in_hz) ==
    bandwidth \in {"_250KHz", "_500KHz"} /\ frequency_in_hz <= 400000000

\* both constructors: 250 and 500 kHz need at least 400 MHz
InvalidBandwidthForFrequency(bandwidth, frequency_in_hz) ==
    bandwidth \in {"_250KHz", "_500KHz"} /\ frequency_in_hz < 400000000

\* new_for_sx1261_2 without the SF12 / 250 kHz case
LowDataRateOptimizeA_125Only(spreading_factor, bandwidth) ==
    IF spreading_factor \in {11, 12} /\ bandwidth = "_125KHz" THEN 1 ELSE 0

\* ModulationParams::new_for_sx1261_2: low_data_rate_optimize
LowDataRateOptimizeA(spreading_factor, bandwidth) ==
    IF \/ (spreading_factor = 11 \/ spreading_factor = 12) /\ bandwidth = "_125KHz"
       \/ spreading_factor = 12 /\ bandwidth = "_250KHz"
    THEN 1 ELSE 0

\* ModulationParams::new_for_sx1276_7_8_9: symbol_duration (u32 arithmetic)
symbol_duration(spreading_factor, bandwidth) ==
    1000 \div (value_in_hz(bandwidth) \div (2 ^ spreading_factor_value(spreading_factor)))

\* ModulationParams::new_for_sx1276_7_8_9: low_data_rate_optimize
LowDataRateOptimizeB(spreading_factor, bandwidth) ==
    IF symbol_duration(spreading_factor, bandwidth) > 16 THEN 1 ELSE 0

\* LoRa::create_modulation_params: the constructor of the chip's family.
\* The constructors keep nothing between calls, so a behaviour follows one call.
create_modulation_params ==
    /\ mdltn_params = NoModulationParams
    /\ \E sf \in SpreadingFactors, bw \in Bandwidths, cr \in CodingRates,
          f \in ChannelFreqs :
       \E e \in ValidationErrors \cup
                 {IF InvalidBandwidthForFrequency(bw, f)
                  THEN "InvalidBandwidthForFrequency" ELSE ""} :
          mdltn_params' =
             [spreading_factor |-> sf, bandwidth |-> bw, coding_rate |-> cr,
              frequency_in_hz |-> f, err |-> e,
              low_data_rate_optimize |->
                 IF e # "" THEN 0
                 ELSE IF Family(radio_type) = "A" THEN LowDataRateOptimizeA(sf, bw)
                 ELSE LowDataRateOptimizeB(sf, bw)]
    /\ UNCHANGED <<lora_vars, chip_vars, pkt_params, kind_vars>>

\* preamble lengths (symbols) and receive payload limits handed in
PreambleLengths == {8, 12}
MaxPayloadLengths == {255}

\* new_for_sx1276_7_8_9 refusing spreading factor 6 whatever the header
SF6ExplicitHeader_AnyHeader(spreading_factor, implicit_header) ==
    spreading_factor = 6

\* PacketParams::new_for_sx1276_7_8_9: the request it refuses
SF6ExplicitHeader(spreading_factor, implicit_header) ==
    spreading_factor = 6 /\ ~implicit_header

\* PacketParams::new_for_sx1261_2: the preamble length it stores
PreambleA(spreading_factor, preamble_length) ==
    IF (spreading_factor = 5 \/ spreading_factor = 6) /\ preamble_length < 12
    THEN 12 ELSE preamble_length

\* LoRa::create_tx_packet_params (payload length 0) and
\* LoRa::create_rx_packet_params, on modulation parameters built before;
\* the constructor is the one of the chip's family
create_packet_params ==
    /\ mdltn_params.err = ""
    /\ pkt_params = NoPacketParams
    /\ \E name \in {"create_tx_packet_params", "create_rx_packet_params"},
          preamble_length \in PreambleLengths, implicit_header \in BOOLEAN,
          max_payload_length \in MaxPayloadLengths, crc_on \in BOOLEAN,
          iq_inverted \in BOOLEAN :
       LET payload_length ==
               IF name = "create_tx_packet_params" THEN 0 ELSE max_payload_length
           args == PacketFields(preamble_length, implicit_header, payload_length,
                                crc_on, iq_inverted)
           sf == mdltn_params.spreading_factor
       IN pkt_params' =
             IF Family(radio_type) = "A"
             THEN [name |-> name, args |-> args, err |-> "",
                   params |-> [args EXCEPT !.preamble_length = PreambleA(sf, preamble_length)]]
             ELSE IF SF6ExplicitHeader(sf, implicit_header)
             THEN [name |-> name, args |-> args, err |-> "InvalidSF6ExplicitHeaderRequest",
                   params |-> NoPacketParams.params]
             ELSE [name |-> name, args |-> args, err |-> "", params |-> args]
    /\ UNCHANGED <<lora_vars, chip_vars, mdltn_params, kind_vars>>

ParamsNext ==
    \/ create_modulation_params
    \/ create_packet_params

ParamsSpec == Init /\ [][ParamsNext]_vars

\* ------------------------------------- chip-level routines, by transfer
\* the symbol counts a caller can pass (u16)
SymbolNums == 0..65535

\* a chip-level routine returning: plan is the transfers of a run to its end,
\* k the transfer that fails with e (0: none does), the failing one issued last
KindReturn(name, nums, flags, plan, k, e) ==
    [name |-> name, mode |-> "", nums |-> nums, flags |-> flags, irqs |-> << >>,
     result |-> IF k = 0 THEN Ok ELSE Err(e),
     transfers |-> IF k = 0 THEN plan ELSE SubSeq(plan, 1, k)]

\* set_lora_symbol_num_timeout of either family (family B takes a u8 and
\* writes it to RegSymbTimeoutLsb as it is)
set_lora_symbol_num_timeout ==
    /\ kind_call = NoKindCall
    /\ \E symbol_num \in (IF Family(radio_type) = "A" THEN SymbolNums ELSE 0..255) :
         LET plan == IF Family(radio_type) = "A"
                     THEN SymbolTimeoutWritesA(symbol_num)
                     ELSE << Step("write", "RegSymbTimeoutLsb", symbol_num) >>
         IN \E k \in 0..Len(plan), e \in TransportErrors :
              kind_call' = KindReturn("set_lora_symbol_num_timeout",
                                      << symbol_num >>, {}, plan, k, e)
    /\ UNCHANGED <<lora_vars, chip_vars, params_vars, transaction>>

\* the symbol timeouts a receive start is followed with
RxSymbolTimeouts == {0, 100, 255, 256, 65535}

\* RadioKind::do_rx called on its own
do_rx ==
    /\ kind_call = NoKindCall
    /\ \E duty \in BOOLEAN, cont \in BOOLEAN, boosted \in BOOLEAN,
          st \in RxSymbolTimeouts :
         LET c == Call("do_rx", "", <<st, RxTimeout>>,
                       Flag(duty, "duty_cycle") \cup Flag(cont, "rx_continuous")
                         \cup Flag(boosted, "boosted"))
         IN \E k \in RunChoices(radio_type, << c >>) :
            \E e \in RunErrors(radio_type, << c >>, k) :
            \E ss \in DoRxIssued(radio_type, << c >>, k, e) :
              kind_call' = [name |-> "do_rx", mode |-> "", nums |-> c.nums,
                            flags |-> c.flags, irqs |-> << >>,
                            result |-> IF k = 0 THEN Ok ELSE Err(e),
                            transfers |-> ss]
    /\ UNCHANGED <<lora_vars, chip_vars, params_vars, transaction>>

\* the output powers (dBm) set_tx_power_and_ramp_time is followed with: both
\* sides of every range limit and the values given a PA configuration of
\* their own
OutputPowers == {-18, -17, -10, -9, -5, -4, 1, 2, 10, 14, 15, 16, 17, 20, 21, 22, 23}

\* the frequencies of the modulation context handed over (0: None)
PowerContexts == {0, 399999999, 400000000}

\* sx1261_2 set_tx_power_and_ramp_time: pa_duty_cycle of the PA configuration
\* chosen for output_power
PaDutyCycle(rt, output_power) ==
    IF rt = "SX1261"
    THEN CASE output_power = 15 -> 6
           [] output_power = 14 -> 4
           [] output_power = 10 -> 1
           [] OTHER -> 4
    ELSE CASE output_power = 22 -> 4
           [] output_power = 20 -> 3
           [] output_power \in {17, 14} -> 2
           [] OTHER -> 4

\* tx_params_power with a negative power sent as its magnitude
TxParamsPower_Magnitude(rt, output_power) ==
    IF rt = "SX1261"
    THEN IF output_power \in {15, 14, 10} THEN 14
         ELSE IF output_power < 0 THEN -output_power ELSE output_power
    ELSE IF output_power \in {22, 20, 17, 14} THEN 22
         ELSE IF output_power < 0 THEN -output_power ELSE output_power

\* sx1261_2 set_tx_power_and_ramp_time: tx_params_power
TxParamsPower(rt, output_power) ==
    IF rt = "SX1261"
    THEN IF output_power \in {15, 14, 10} THEN 14 ELSE U8(output_power)
    ELSE IF output_power \in {22, 20, 17, 14} THEN 22 ELSE U8(output_power)

\* set_tx_power_and_ramp_time, the transfers of a call that runs to its end
\* (family B: the value listed for RegPaConfig is the output_power byte or-ed
\* into it)
PowerTransfers(rt, c) ==
    IF rt = "SX1261"
    THEN << Step("write", "SetPAConfig", PaDutyCycle(rt, c.nums[1])),
            Step("write", "SetTxParams", TxParamsPower(rt, c.nums[1])) >>
    ELSE IF Family(rt) = "A"
    THEN << Step("read", "TxClampCfg", 0),
            Step("write", "TxClampCfg", 30),
            Step("write", "SetPAConfig", PaDutyCycle(rt, c.nums[1])),
            Step("write", "SetTxParams", TxParamsPower(rt, c.nums[1])) >>
    ELSE << Step("write", "RegPaDac", 0),
            Step("write", "RegOcp", 0),
            Step("write", "RegPaConfig",
                 U8(IF "boosted" \in c.flags THEN c.nums[1] - 2 ELSE c.nums[1])),
            Step("write", "RegPaRamp", 0) >>

\* set_tx_power_and_ramp_time testing the range after the clamp is configured
PowerChecked_AfterClamp(rt, c) == IF Family(rt) = "A" /\ rt # "SX1261" THEN 2 ELSE 0

\* set_tx_power_and_ramp_time: how many transfers are behind it when it
\* rejects its arguments
PowerChecked(rt, c) == 0

\* RadioKind::set_tx_power_and_ramp_time called on its own
set_tx_power_and_ramp_time ==
    /\ kind_call = NoKindCall
    /\ \E output_power \in OutputPowers, f \in PowerContexts,
          boosted \in BOOLEAN, is_tx_prep \in BOOLEAN :
         LET c == Call("set_tx_power_and_ramp_time", "",
                       IF f = 0 THEN << output_power >> ELSE << output_power, f >>,
                       Flag(f # 0, "mdltn") \cup Flag(boosted, "boosted")
                         \cup Flag(is_tx_prep, "tx_prep"))
             plan == PowerTransfers(radio_type, c)
         IN IF MustErr(radio_type, c) # ""
            THEN kind_call' = [name |-> c.name, mode |-> "", nums |-> c.nums,
                               flags |-> c.flags, irqs |-> << >>,
                               result |-> Err(MustErr(radio_type, c)),
                               transfers |->
                                   SubSeq(plan, 1, PowerChecked(radio_type, c))]
            ELSE \E k \in 0..Len(plan), e \in TransportErrors :
                   kind_call' = KindReturn(c.name, c.nums, c.flags, plan, k, e)
    /\ UNCHANGED <<lora_vars, chip_vars, params_vars, transaction>>

\* sx1261_2: SX126X_XTAL_FREQ >> (25 - SX126X_PLL_STEP_SHIFT_AMOUNT)
SX126X_PLL_STEP_SCALED == 15625

\* sx1261_2: 2^SX126X_PLL_STEP_SHIFT_AMOUNT, the factor of << 14
PllShift == 16384

\* the conversion without the half step added before the division
convert_freq_in_hz_to_pll_step_Truncating(freq_in_hz) ==
    LET steps_int == freq_in_hz \div SX126X_PLL_STEP_SCALED
        steps_frac == freq_in_hz - (steps_int * SX126X_PLL_STEP_SCALED)
    IN (steps_int * PllShift) + ((steps_frac * PllShift) \div SX126X_PLL_STEP_SCALED)

\* sx1261_2 convert_freq_in_hz_to_pll_step (no value reaches 2^31 for the
\* frequencies followed, so the u32 arithmetic is the integers')
convert_freq_in_hz_to_pll_step(freq_in_hz) ==
    LET steps_int == freq_in_hz \div SX126X_PLL_STEP_SCALED
        steps_frac == freq_in_hz - (steps_int * SX126X_PLL_STEP_SCALED)
    IN (steps_int * PllShift)
       + (((steps_frac * PllShift) + (SX126X_PLL_STEP_SCALED \div 2))
             \div SX126X_PLL_STEP_SCALED)

\* byte n (0: lowest) of a word: (word >> 8n) & 0xFF
ByteOf(word, n) == (word \div (256 ^ n)) % 256

\* sx1276_7_8_9 set_channel: frf = (frequency_in_hz as f64 / 61.03515625) as
\* u32; the step is 15625 / 256 exactly and the quotient is far from the
\* precision of f64, so frf = floor(frequency_in_hz * 256 / 15625)
Frf(frequency_in_hz) ==
    ((frequency_in_hz \div 15625) * 256) + (((frequency_in_hz % 15625) * 256) \div 15625)

\* set_channel, the transfers of a call that runs to its end: family A sends
\* the step count as four bytes of one SetRFFrequency command (listed as the
\* word they spell), family B writes three registers
ChannelTransfers(rt, frequency_in_hz) ==
    IF Family(rt) = "A"
    THEN LET freq_in_pll_steps == convert_freq_in_hz_to_pll_step(frequency_in_hz)
         IN << Step("write", "SetRFFrequency",
                    (ByteOf(freq_in_pll_steps, 3) * 16777216)
                    + (ByteOf(freq_in_pll_steps, 2) * 65536)
                    + (ByteOf(freq_in_pll_steps, 1) * 256)
                    + ByteOf(freq_in_pll_steps, 0)) >>
    ELSE << Step("write", "RegFrfMsb", ByteOf(Frf(frequency_in_hz), 2)),
            Step("write", "RegFrfMid", ByteOf(Frf(frequency_in_hz), 1)),
            Step("write", "RegFrfLsb", ByteOf(Frf(frequency_in_hz), 0)) >>

\* the channel frequencies set_channel is followed with: the two ends of the
\* supported range, each with a run covering every remainder of the scaled
\* step, and the usual bands
ChannelHz ==
    (150000000..150015624) \cup (959984375..960000000)
    \cup {433000000, 868000000, 915000000}

\* RadioKind::set_channel called on its own
set_channel ==
    /\ kind_call = NoKindCall
    /\ \E frequency_in_hz \in ChannelHz :
         LET plan == ChannelTransfers(radio_type, frequency_in_hz)
         IN \E k \in 0..Len(plan), e \in TransportErrors :
              kind_call' = KindReturn("set_channel", << frequency_in_hz >>, {},
                                      plan, k, e)
    /\ UNCHANGED <<lora_vars, chip_vars, params_vars, transaction>>

\* one step of process_irq: the board's interrupt wait or one transfer,
\* with the interrupt flags it carries
IrqStep(kind, target, bits) ==
    [kind |-> kind, target |-> target, value |-> 0, bits |-> bits]

\* a loop iteration classifying the bitmap without clearing it
IrqIteration_Uncleared(fam, b) ==
    << IrqStep("wait", "await_irq", {}),
       IrqStep("read", IF fam = "A" THEN "GetIrqStatus" ELSE "RegIrqFlags", b) >>

\* process_irq, one loop iteration up to the classification: await_irq, the
\* read of the bitmap b, and the clear (family A: ClrIrqStatus with the two
\* bytes read; family B: 0xff to RegIrqFlags)
IrqIteration(fam, b) ==
    << IrqStep("wait", "await_irq", {}),
       IrqStep("read", IF fam = "A" THEN "GetIrqStatus" ELSE "RegIrqFlags", b),
       IrqStep("write", IF fam = "A" THEN "ClrIrqStatus" ELSE "RegIrqFlags",
               IF fam = "A" THEN b ELSE IrqFlags(fam)) >>

RECURSIVE IrqIterations(_, _)
\* the iterations that read the bitmaps bs, in order
IrqIterations(fam, bs) ==
    IF bs = << >> THEN << >>
    ELSE IrqIteration(fam, Head(bs)) \o IrqIterations(fam, Tail(bs))

\* sx1261_2 process_irq, the rx_done arm of a single-shot receive: RTCCtrl
\* is cleared and bit 1 of EvtClr set
RxDoneSteps ==
    << IrqStep("write", "RTCCtrl", {}),
       IrqStep("read", "EvtClr", {}),
       IrqStep("write", "EvtClr", {}) >>

\* Every way one call of process_irq can run: ProcessIrq's outcomes, each
\* with the steps taken.  A failed iteration stops at the wait (Irq), at the
\* read (transport error, or family A's status byte: OpError) or at the clear
\* of whatever bitmap it read.
ProcessIrqSteps(rt, mode, rx_cont, want_cad) ==
    LET fam == Family(rt)
        waits == SeqsUpTo(ContinueBitmaps(fam, mode), MaxPolls - 1)
        last == Bitmaps(fam) \ ContinueBitmaps(fam, mode)
        extra(b) == IF fam = "A" /\ ~rx_cont /\ ArmA(mode, b) = "rx_done"
                    THEN RxDoneSteps ELSE << >>
        run(iq, res, st) == [irqs |-> iq, res |-> res, steps |-> st]
    IN  {run(Append(w, b), ArmResult(fam, mode, b, want_cad),
             IrqIterations(fam, Append(w, b)) \o extra(b)) : w \in waits, b \in last}
        \cup {run(w, Err("Irq"),
                  IrqIterations(fam, w) \o SubSeq(IrqIteration(fam, {}), 1, 1)) :
                w \in waits}
        \cup {run(w, Err(e),
                  IrqIterations(fam, w) \o SubSeq(IrqIteration(fam, {}), 1, 2)) :
                w \in waits, e \in PollErrors(fam) \ {"Irq"}}
        \cup {run(w, Err(e), IrqIterations(fam, w) \o IrqIteration(fam, b)) :
                w \in waits, e \in TransportErrors, b \in Bitmaps(fam)}
        \cup {run(Append(w, b), Err(e),
                  IrqIterations(fam, Append(w, b)) \o SubSeq(extra(b), 1, n)) :
                w \in waits, e \in TransportErrors, n \in 1..3,
                b \in {x \in last : extra(x) # << >>}}

\* RadioKind::process_irq called on its own
process_irq ==
    /\ kind_call = NoKindCall
    /\ \E mode \in RadioModes, rx_cont \in BOOLEAN, want_cad \in BOOLEAN :
       \E r \in ProcessIrqSteps(radio_type, mode, rx_cont, want_cad) :
         kind_call' = [name |-> "process_irq", mode |-> mode, nums |-> << >>,
                       flags |-> Flag(rx_cont, "rx_continuous")
                                   \cup Flag(want_cad, "cad_activity_detected"),
                       irqs |-> r.irqs, result |-> r.res, transfers |-> r.steps]
    /\ UNCHANGED <<lora_vars, chip_vars, params_vars, transaction>>

\* `as i8`: the byte read as a two's complement number
I8(byte) == IF byte >= 128 THEN byte - 256 ELSE byte

\* x >> n on a signed integer: the arithmetic shift rounds towards minus infinity
Sar(x, n) ==
    IF x >= 0 THEN x \div (2 ^ n) ELSE -(((-x) + (2 ^ n) - 1) \div (2 ^ n))

\* sx1261_2 get_rx_packet_status, the values computed from the bytes read:
\* rssi is computed in i32, snr in i8.  (pkt_status[1] as i8) + 2 exceeds i8
\* for 126 and 127: a build with overflow checks panics there, a build
\* without wraps the sum around to -128 and -127.
PacketStatusOutcomes(rssi_raw, snr_raw) ==
    LET rssi == Sar(-rssi_raw, 1)
        sum == I8(snr_raw) + 2
        status(snr) == [Ok EXCEPT !.info = << rssi, snr >>]
    IN  IF sum <= 127 THEN {status(Sar(sum, 2))}
        ELSE {Err("Panic"), status(Sar(sum - 256, 2))}

\* the bytes GetPacketStatus can return
StatusBytes == 0..255

\* RadioKind::get_rx_packet_status of the first family, called on its own
get_rx_packet_status ==
    /\ kind_call = NoKindCall
    /\ Family(radio_type) = "A"
    /\ \E rssi_raw \in StatusBytes, snr_raw \in StatusBytes :
       LET plan == << Step("read", "GetPacketStatus", 0) >> IN
       \/ \E r \in PacketStatusOutcomes(rssi_raw, snr_raw) :
             kind_call' = [KindReturn("get_rx_packet_status", << rssi_raw, snr_raw >>,
                                      {}, plan, 0, "") EXCEPT !.result = r]
       \/ /\ rssi_raw = 0 /\ snr_raw = 0
          /\ \E e \in TransportErrors \cup {"OpError"} :
                kind_call' = KindReturn("get_rx_packet_status", << >>, {}, plan, 1, e)
    /\ UNCHANGED <<lora_vars, chip_vars, params_vars, transaction>>

KindNext ==
    \/ set_lora_symbol_num_timeout
    \/ do_rx
    \/ set_tx_power_and_ramp_time
    \/ set_channel
    \/ process_irq
    \/ get_rx_packet_status

KindSpec == Init /\ [][KindNext]_vars

\* ------------------------------------------- transport transactions
\* one pin or bus operation of a transaction and whether it returned Ok
BusOp(name, ok) == [op |-> name, ok |-> ok]

\* the exchanges of a transaction that runs to its end, each followed by a
\* flush: one write per buffer, the status byte (read_with_status), one
\* transfer per item read
Exchanges(name, buffers, items) ==
    [i \in 1..buffers |-> "write"]
    \o (IF name = "read_with_status" THEN << "transfer" >> ELSE << >>)
    \o [i \in 1..items |-> "transfer"]

RECURSIVE Exchanged(_, _)
\* the first n exchanges of xs, each with its flush, all returning Ok
Exchanged(xs, n) ==
    IF n = 0 THEN << >>
    ELSE Exchanged(xs, n - 1) \o << BusOp(xs[n], TRUE), BusOp("flush", TRUE) >>

\* a failed exchange propagating its error with chip-select left asserted
Deselect_Skipped(high_ok) == << >>

\* let _err = self.iv.set_nss_high(), after a failed write, transfer or flush
Deselect(high_ok) == << BusOp("set_nss_high", high_ok) >>

\* wait_on_busy at the end of a transaction; write skips it for a sleep command
BusyWaited(name, is_sleep_command) == ~(name = "write" /\ is_sleep_command)

\* every way a transaction can run: the operations performed, in order, and
\* the result returned
Transactions(name, buffers, items, is_sleep_command) ==
    LET xs == Exchanges(name, buffers, items)
        low == << BusOp("set_nss_low", TRUE) >>
        all == low \o Exchanged(xs, Len(xs))
        run(trace, res) ==
            [name |-> name, buffers |-> buffers, items |-> items,
             is_sleep_command |-> is_sleep_command,
             result |-> res, trace |-> trace]
    IN {run(<< BusOp("set_nss_low", FALSE) >>, Err("NSS"))}
       \cup {run(low \o Exchanged(xs, j[1] - 1)
                     \o << BusOp(xs[j[1]], j[2]), BusOp("flush", j[3]) >>
                     \o Deselect(j[4]),
                 Err("SPI")) :
               j \in {q \in (1..Len(xs)) \X BOOLEAN \X BOOLEAN \X BOOLEAN :
                        ~(q[2] /\ q[3])}}
       \cup {run(all \o << BusOp("set_nss_high", FALSE) >>, Err("NSS"))}
       \cup (IF BusyWaited(name, is_sleep_command)
             THEN {run(all \o << BusOp("set_nss_high", TRUE),
                                 BusOp("wait_on_busy", FALSE) >>, Err("Busy")),
                   run(all \o << BusOp("set_nss_high", TRUE),
                                 BusOp("wait_on_busy", TRUE) >>, Ok)}
             ELSE {run(all \o << BusOp("set_nss_high", TRUE) >>, Ok)})

\* SpiInterface::write
write ==
    /\ \E buffers \in 1..MaxBuffers, is_sleep_command \in BOOLEAN :
         transaction' \in Transactions("write", buffers, 0, is_sleep_command)
    /\ UNCHANGED <<lora_vars, chip_vars, params_vars, kind_call>>

\* SpiInterface::read: number_to_read is read_length when given (-1: None),
\* and no more items are read than read_buffer holds
read ==
    /\ \E buffers \in 1..MaxBuffers, read_buffer \in 0..MaxReadLen,
          read_length \in -1..(MaxReadLen + 1) :
         transaction' \in Transactions("read", buffers,
                                       IF read_length = -1 THEN read_buffer
                                       ELSE Min(read_length, read_buffer), FALSE)
    /\ UNCHANGED <<lora_vars, chip_vars, params_vars, kind_call>>

\* SpiInterface::read_with_status
read_with_status ==
    /\ \E buffers \in 1..MaxBuffers, read_buffer \in 0..MaxReadLen :
         transaction' \in Transactions("read_with_status", buffers, read_buffer, FALSE)
    /\ UNCHANGED <<lora_vars, chip_vars, params_vars, kind_call>>

InterfaceNext ==
    \/ write
    \/ read
    \/ read_with_status

InterfaceSpec == Init /\ [][InterfaceNext]_vars

\* ------------------------------------------------------------ properties
\* an operation named `name` has just returned
Returned(name) == phase = "returned" /\ op.name = name

\* every chip-level call of the last operation returned Ok
AllCallsOk == \A i \in 1..Len(calls) : calls[i].err = ""

\* process_irq was called by the last operation and returned an error
IrqFailed == pirq # << >> /\ ~pirq[1].ok

\* the last bitmap process_irq read
LastIrq == irqs[Len(irqs)]

\* C1: after prepare_for_tx (mode Standby, continuous flag clear), a send of
\* at most 255 bytes whose chip calls all succeed and whose first interrupt
\* bitmap reports transmit-done returns Ok and leaves the mode at Standby.
C1_SendOkEndsInStandby ==
    ( /\ Returned("tx")
      /\ op.nums[2] <= 255
      /\ pre.mode = "Standby"
      /\ AllCallsOk
      /\ irqs # << >>
      /\ irqs[1] = {"TX_DONE"} )
    => (result.ok /\ radio_mode = "Standby")

\* C2: rx in single-shot receive (continuous flag false, mode Receive): when
\* process_irq returns an error E and the recovery calls succeed, rx returns
\* exactly E and the mode is Standby; a CRC-error flag gives CRCErrorOnReceive.
C2_SingleShotRxError ==
    ( /\ Returned("rx")
      /\ ~pre.rx_continuous
      /\ pre.mode = "Receive"
      /\ IrqFailed
      /\ AllCallsOk )
    => /\ result = pirq[1]
       /\ radio_mode = "Standby"
       /\ ( (irqs # << >> /\ "CRC_ERROR" \in LastIrq /\ "HEADER_ERROR" \notin LastIrq)
            => result = Err("CRCErrorOnReceive") )

C2_Witness ==
    /\ Returned("rx")
    /\ ~pre.rx_continuous
    /\ pre.mode = "Receive"
    /\ irqs # << >>
    /\ "CRC_ERROR" \in LastIrq
    /\ Len(calls) = 2
    /\ AllCallsOk
    /\ result.err = "CRCErrorOnReceive"
    /\ radio_mode = "Standby"

\* C3: rx while continuous receive is active (continuous flag true, mode
\* Receive): when process_irq returns an error, that error is returned, the
\* mode stays Receive, the flag stays true and no chip call is issued.
C3_ContinuousRxError ==
    ( /\ Returned("rx")
      /\ pre.rx_continuous
      /\ pre.mode = "Receive"
      /\ IrqFailed )
    => /\ result = pirq[1]
       /\ radio_mode = "Receive"
       /\ rx_continuous
       /\ calls = << >>

C3_Witness ==
    /\ Returned("rx")
    /\ pre.rx_continuous
    /\ pre.mode = "Receive"
    /\ IrqFailed
    /\ result.err = "ReceiveTimeout"
    /\ radio_mode = "Receive"

C5_SendErrorRecovery ==
    (Returned("tx") /\ IrqFailed)
    => \E n \in 1..Len(calls) :
          /\ calls[n].name = "do_tx"
          /\ calls[n].err = ""
          /\ Len(calls) >= n + 1
          /\ calls[n + 1].name = "ensure_ready"
          /\ calls[n + 1].mode = "Transmit"
          /\ (calls[n + 1].err = ""
              => /\ Len(calls) = n + 2
                 /\ calls[n + 2].name = "set_standby")
          /\ (calls[n + 1].err # "" => Len(calls) = n + 1)
          /\ (AllCallsOk => (result = pirq[1] /\ radio_mode = "Standby"))

C5_Witness ==
    /\ Returned("tx")
    /\ IrqFailed
    /\ AllCallsOk
    /\ result.err = "TransmitTimeout"
    /\ radio_mode = "Standby"

\* C6: in tx, single-shot rx and cad, when process_irq returns an error E
\* and a recovery call (ensure_ready or set_standby) then fails with R, the
\* operation returns R and the mode is not set to Standby: it stays the
\* mode the operation ran in (Transmit for tx, the caller's mode otherwise).
C6_RecoveryFailure ==
    ( /\ phase = "returned"
      /\ op.name \in {"tx", "rx", "cad"}
      /\ (op.name = "rx" => ~pre.rx_continuous)
      /\ IrqFailed
      /\ calls # << >>
      /\ calls[Len(calls)].name \in {"ensure_ready", "set_standby"}
      /\ calls[Len(calls)].err # "" )
    => /\ result = Err(calls[Len(calls)].err)
       /\ radio_mode = (IF op.name = "tx" THEN "Transmit" ELSE pre.mode)

C6_Witness ==
    /\ Returned("cad")
    /\ pre.mode = "ChannelActivityDetection"
    /\ IrqFailed
    /\ pirq[1].err = "CRCErrorUnexpected"
    /\ Len(calls) = 2
    /\ calls[2].name = "set_standby"
    /\ calls[2].err = "SPI"
    /\ result.err = "SPI"
    /\ radio_mode = "ChannelActivityDetection"

\* C7: prepare_for_cad holds mode ChannelActivityDetection by the time it
\* programs the interrupt masks (for that mode) and issues do_cad; cad,
\* called in that mode, returns Ok(true) exactly when the terminating bitmap
\* holds CAD-done and activity-detected, Ok(false) when it holds CAD-done
\* without activity-detected; on a process_irq error with a successful
\* recovery it returns that error with mode Standby.  Both families.
C7_CadPattern ==
    /\ ( (Returned("prepare_for_cad")
            /\ \E i \in 1..Len(calls) : calls[i].name = "set_irq_params")
         => /\ radio_mode = "ChannelActivityDetection"
            /\ \A i \in 1..Len(calls) :
                  /\ (calls[i].name = "set_irq_params"
                        => calls[i].mode = "ChannelActivityDetection")
                  /\ (calls[i].name = "do_cad"
                        => i > 1 /\ calls[i - 1].name = "set_irq_params") )
    /\ ( (Returned("cad") /\ pre.mode = "ChannelActivityDetection" /\ result.ok)
         => /\ irqs # << >>
            /\ result.cad = ({"CAD_DONE", "CAD_ACTIVITY_DETECTED"} \subseteq LastIrq) )
    /\ ( (Returned("cad") /\ IrqFailed /\ AllCallsOk)
         => (result = pirq[1] /\ radio_mode = "Standby") )

\* the order LoRa::init is said to issue its chip calls in
InitOrder ==
    << "reset", "ensure_ready", "init_rf_switch", "set_standby", "set_lora_modem",
       "set_oscillator", "set_regulator_mode", "set_tx_rx_buffer_base_address",
       "set_tx_power_and_ramp_time", "set_irq_params", "update_retention_list" >>

\* C8: init (also inside new) issues reset, ensure_ready, init_rf_switch,
\* set_standby, set_lora_modem(public flag), set_oscillator,
\* set_regulator_mode, buffer base addresses (0,0), tx power (0 dBm, no
\* modulation context, not boosted, initialization ramp), irq masks for
\* Standby, update_retention_list, in this order; the first failing call is
\* the last one issued and its error is returned; the mode is Standby
\* exactly when set_standby returned Ok, otherwise unchanged.
C8_InitOrder ==
    (phase \in {"returned", "dropped"} /\ op.name \in {"new", "init"})
    => LET n == Len(calls) IN
       /\ n >= 1
       /\ n <= Len(InitOrder)
       /\ \A i \in 1..n : calls[i].name = InitOrder[i]
       /\ \A i \in 1..(n - 1) : calls[i].err = ""
       /\ (calls[n].err # "" => result = Err(calls[n].err))
       /\ (calls[n].err = "" => (n = Len(InitOrder) /\ result.ok))
       /\ (n >= 2 => calls[2].mode = pre.mode)
       /\ (n >= 5 => calls[5].flags = op.flags)
       /\ (n >= 8 => calls[8].nums = <<0, 0>>)
       /\ (n >= 9 => (calls[9].nums = <<0>> /\ calls[9].flags = {}))
       /\ (n >= 10 => calls[10].mode = "Standby")
       /\ radio_mode = (IF n >= 4 /\ calls[4].err = "" THEN "Standby" ELSE pre.mode)

C8_Witness ==
    /\ Returned("init")
    /\ pre.mode = "Receive"
    /\ Len(calls) = 6
    /\ calls[6].name = "set_oscillator"
    /\ calls[6].err = "SPI"
    /\ result.err = "SPI"
    /\ radio_mode = "Standby"

\* the operations that calibrate and select a channel
ChannelOps == {"tx", "prepare_for_rx", "prepare_for_cad"}

\* C9: every init, failed or not, clears the calibration cache; a successful
\* sleep that reached set_sleep clears it on family B (no warm start) and
\* keeps it on family A (warm start); with the cache clear, a send,
\* prepare_for_rx or prepare_for_cad that issues set_channel has issued
\* calibrate_image for that frequency immediately before it.
C9_CacheInvalidation ==
    /\ ( (phase \in {"returned", "dropped"} /\ op.name \in {"new", "init"})
         => ~image_calibrated )
    /\ ( (Returned("sleep") /\ result.ok /\ calls # << >>)
         => image_calibrated =
               (IF radio_type \in {"SX1261", "SX1262", "STM32WLSX1262"}
                THEN pre.image_calibrated ELSE FALSE) )
    /\ ( (phase = "returned" /\ op.name \in ChannelOps /\ ~pre.image_calibrated)
         => \A i \in 1..Len(calls) :
               calls[i].name = "set_channel"
               => /\ i > 1
                  /\ calls[i - 1].name = "calibrate_image"
                  /\ calls[i - 1].err = ""
                  /\ calls[i - 1].nums = calls[i].nums
                  /\ calls[i].nums = <<op.nums[1]>> )

C9_Witness ==
    /\ Returned("sleep")
    /\ radio_type = "SX1276"
    /\ result.ok
    /\ Len(calls) = 2
    /\ pre.image_calibrated
    /\ ~image_calibrated

\* C10: whenever the cache flag is true after a send, prepare_for_rx or
\* prepare_for_cad that issued set_channel, the calibrate_image behind the
\* cache was for the frequency passed to that set_channel (a frequency
\* other than the one last calibrated is calibrated first).
C10_CalibratedForChannel ==
    (phase = "returned" /\ op.name \in ChannelOps /\ image_calibrated)
    => \A i \in 1..Len(calls) :
          calls[i].name = "set_channel" => cal_freq = calls[i].nums[1]

\* C11: after a successful prepare_for_rx the mode is ReceiveDutyCycle when
\* duty-cycle parameters were passed and Receive otherwise, the continuous
\* flag equals the caller's argument, and set_irq_params was called for
\* that mode directly before do_rx, the last call.
C11_PrepareForRxTarget ==
    (Returned("prepare_for_rx") /\ result.ok)
    => /\ radio_mode = (IF "duty_cycle" \in op.flags THEN "ReceiveDutyCycle"
                        ELSE "Receive")
       /\ rx_continuous = ("rx_continuous" \in op.flags)
       /\ Len(calls) >= 2
       /\ calls[Len(calls)].name = "do_rx"
       /\ calls[Len(calls) - 1].name = "set_irq_params"
       /\ calls[Len(calls) - 1].mode = radio_mode
       /\ \A i \in 1..Len(calls) :
             calls[i].name = "set_irq_params" => i = Len(calls) - 1

C11_Witness ==
    /\ Returned("prepare_for_rx")
    /\ result.ok
    /\ "duty_cycle" \in op.flags
    /\ radio_mode = "ReceiveDutyCycle"
    /\ ~rx_continuous


\* C12: prepare_for_rx with duty-cycle parameters and rx_continuous set (on the
\* first family), or with duty-cycle parameters at all (on the second), never
\* succeeds; when its do_rx call is reached, that call fails with
\* DutyCycleRxContinuousUnsupported (first family) or DutyCycleUnsupported
\* (second family) and has taken no step: the antenna switch was not enabled
\* for receive and no timeout register or receive command was written.
C12_DutyCycleRejected ==
    (/\ Returned("prepare_for_rx")
     /\ "duty_cycle" \in op.flags
     /\ (Family(radio_type) = "B" \/ "rx_continuous" \in op.flags))
    => /\ ~result.ok
       /\ steps = << >>
       /\ (calls # << >> /\ calls[Len(calls)].name = "do_rx")
          => /\ calls[Len(calls)].err =
                   (IF Family(radio_type) = "A"
                    THEN "DutyCycleRxContinuousUnsupported" ELSE "DutyCycleUnsupported")
             /\ result = Err(calls[Len(calls)].err)

C12_Witness ==
    /\ Returned("prepare_for_rx")
    /\ Family(radio_type) = "A"
    /\ {"duty_cycle", "rx_continuous"} \subseteq op.flags
    /\ calls # << >>
    /\ calls[Len(calls)].name = "do_rx"
    /\ result = Err("DutyCycleRxContinuousUnsupported")
    /\ steps = << >>

\* C13: a successful prepare_for_tx, from whatever mode, leaves
\* radio_mode = Standby and rx_continuous = FALSE; its calls are ensure_ready
\* with the mode before the call, then set_standby exactly when that mode was
\* not Standby, then set_modulation_params, then set_tx_power_and_ramp_time
\* with the channel's modulation parameters and the pre-send ramp.
C13_PrepareForTx ==
    (Returned("prepare_for_tx") /\ result.ok)
    => LET n == Len(calls) IN
       /\ radio_mode = "Standby"
       /\ ~rx_continuous
       /\ n = (IF pre.mode # "Standby" THEN 4 ELSE 3)
       /\ calls[1].name = "ensure_ready"
       /\ calls[1].mode = pre.mode
       /\ (calls[2].name = "set_standby") <=> (pre.mode # "Standby")
       /\ \A i \in 1..n : calls[i].name = "set_standby" => i = 2
       /\ calls[n - 1].name = "set_modulation_params"
       /\ calls[n - 1].nums = <<op.nums[1]>>
       /\ calls[n].name = "set_tx_power_and_ramp_time"
       /\ calls[n].nums = <<op.nums[2], op.nums[1]>>
       /\ {"mdltn", "tx_prep"} \subseteq calls[n].flags
       /\ ("boosted" \in calls[n].flags) <=> ("boosted" \in op.flags)

C13_Witness ==
    /\ Returned("prepare_for_tx")
    /\ result.ok
    /\ pre.mode = "Receive"
    /\ pre.rx_continuous
    /\ radio_mode = "Standby"
    /\ Len(calls) = 4

\* the calls of tx that follow set_payload_length
AfterLengthCalls ==
    {"set_packet_params", "calibrate_image", "set_channel", "set_payload",
     "set_irq_params", "do_tx"}

\* C14: in tx, set_payload_length(n) stores n in the caller's packet
\* parameters exactly when n <= 255.  For n >= 256 the stored length stays as
\* it was, tx never succeeds and issues none of set_packet_params,
\* set_payload, set_irq_params or do_tx, so the mode does not become
\* Transmit; when the opening ensure_ready / set_standby calls succeed the
\* result is PayloadSizeUnexpected(n) and the mode on return is Standby.
C14_PayloadLengthBound ==
    Returned("tx")
    => LET n == op.nums[2]
           opened == Len(StandbyPlan(pre.mode))
           reached == /\ Len(calls) >= opened
                      /\ \A i \in 1..opened : calls[i].err = ""
       IN IF n <= 255
          THEN /\ reached => tx_pkt_params.payload_length = n
               /\ reached => Len(calls) > opened
               /\ ~reached => tx_pkt_params = CreatedTxPacketParams
               /\ result # ErrInfo("PayloadSizeUnexpected", <<n>>)
          ELSE /\ tx_pkt_params = CreatedTxPacketParams
               /\ ~result.ok
               /\ \A i \in 1..Len(calls) : calls[i].name \notin AfterLengthCalls
               /\ radio_mode \in {pre.mode, "Standby"}
               /\ reached => /\ result = ErrInfo("PayloadSizeUnexpected", <<n>>)
                              /\ radio_mode = "Standby"
                              /\ Len(calls) = opened

\* a 256-byte send from Receive mode is refused after the return to Standby
C14_Witness ==
    /\ Returned("tx")
    /\ op.nums[2] = 256
    /\ pre.mode = "Receive"
    /\ result = ErrInfo("PayloadSizeUnexpected", <<256>>)
    /\ radio_mode = "Standby"
    /\ tx_pkt_params.payload_length = 0

\* C15: rx never yields a truncated payload.  When the payload length the
\* chip reports exceeds the length of the caller's buffer, rx fails, with
\* PayloadSizeMismatch(reported length, buffer length) when the length was
\* read, and no byte of the buffer is written; when rx returns Ok, the
\* reported length fits the buffer, exactly that many bytes were copied from
\* the chip, the rest of the buffer is untouched, and that length is
\* returned after get_rx_packet_status succeeded.
C15_NoTruncatedPayload ==
    (Returned("rx") /\ calls # << >> /\ calls[1].name = "get_rx_payload")
    => LET reported == calls[1].nums[1]
           length == calls[1].nums[2]
       IN /\ length = Len(receiving_buffer)
          /\ reported > length
             => /\ ~result.ok
                /\ receiving_buffer = FreshBuffer
                /\ Len(calls) = 1
                /\ calls[1].err = "PayloadSizeMismatch"
                   => result = ErrInfo("PayloadSizeMismatch", <<reported, length>>)
          /\ result.ok
             => /\ reported <= length
                /\ result = OkLen(reported)
                /\ \A i \in 1..length :
                      receiving_buffer[i] = (IF i <= reported THEN ChipByte(i) ELSE 0)
                /\ Len(calls) = 2
                /\ calls[2].name = "get_rx_packet_status"
                /\ calls[2].err = ""

\* a 3-byte payload reported for the 2-byte buffer
C15_Witness ==
    /\ Returned("rx")
    /\ calls # << >>
    /\ calls[1].name = "get_rx_payload"
    /\ calls[1].nums[1] > Len(receiving_buffer)
    /\ result = ErrInfo("PayloadSizeMismatch", <<3, RxBufLen>>)
    /\ receiving_buffer = FreshBuffer

\* C16: rx called while radio_mode is Receive or ReceiveDutyCycle returns Ok
\* with a payload length only if the interrupt bitmap interpreted in that
\* call contained RX_DONE.
C16_RxOkOnlyAfterRxDone ==
    (Returned("rx") /\ result.ok /\ IsRx(pre.mode))
    => "RX_DONE" \in LastIrq

\* the entries of a retention block: its first `count` slots
Entries(list) == [i \in 1..list.count |-> list.slots[i]]

NoDuplicates(list) ==
    \A i, j \in 1..list.count : list.slots[i] = list.slots[j] => i = j

\* the register is one of the entries
Holds(list, register) == register \in {list.slots[i] : i \in 1..list.count}

RetentionReturned(name) == retention_op.name = name

\* C17: on the first family, add_register_to_retention_list for a register
\* that is not in a list already holding 4 entries fails with
\* RetentionListExceeded (or with the transport's error when the list could
\* not be read), issues no register write and leaves the chip's list, count
\* and entries, as it was.
C17_RetentionOverflow ==
    (/\ RetentionReturned("add_register_to_retention_list")
     /\ retention_op.before.count = MAX_NUMBER_REGS_IN_RETENTION
     /\ ~Holds(retention_op.before, retention_op.register))
    => /\ ~retention_op.result.ok
       /\ retention_op.result.err \notin TransportErrors
          => retention_op.result = Err("RetentionListExceeded")
       /\ retention_op.writes = << >>
       /\ retention_list = retention_op.before

C17_Witness ==
    /\ RetentionReturned("add_register_to_retention_list")
    /\ retention_op.before.count = 4
    /\ retention_op.register = <<9, 2>>
    /\ ~Holds(retention_op.before, retention_op.register)
    /\ retention_op.result = Err("RetentionListExceeded")
    /\ retention_list.count = 4

\* C18: on the first family, over every sequence of retention-list
\* operations from the empty list: the count never exceeds 4; the list never
\* holds a register twice; adding a register already in the list issues no
\* write and leaves the list unchanged; a successful add of an absent
\* register to a list with count < 4 puts it after the last entry and raises
\* the count by exactly 1; and update_retention_list run on a list that
\* holds its two registers writes nothing and changes nothing.
C18_RetentionListInvariant ==
    /\ retention_list.count <= MAX_NUMBER_REGS_IN_RETENTION
    /\ NoDuplicates(retention_list)
    /\ RetentionReturned("add_register_to_retention_list")
       => LET before == retention_op.before
              register == retention_op.register
          IN /\ Holds(before, register)
                => /\ retention_op.writes = << >>
                   /\ retention_list = before
             /\ (/\ ~Holds(before, register)
                 /\ before.count < MAX_NUMBER_REGS_IN_RETENTION
                 /\ retention_op.result.ok)
                => /\ retention_list.count = before.count + 1
                   /\ Entries(retention_list) = Append(Entries(before), register)
                   /\ retention_op.writes = <<retention_list>>
    /\ RetentionReturned("update_retention_list")
       => /\ retention_list.count <= retention_op.before.count + 2
          /\ (Holds(retention_op.before, RxGain) /\ Holds(retention_op.before, TxModulation))
             => /\ retention_op.writes = << >>
                /\ retention_list = retention_op.before
                /\ retention_op.result.err \in {""} \cup TransportErrors

\* update_retention_list run again on the list it has filled
C18_Witness ==
    /\ RetentionReturned("update_retention_list")
    /\ retention_op.result.ok
    /\ retention_op.before.count = 2
    /\ Entries(retention_op.before) = <<RxGain, TxModulation>>
    /\ retention_op.writes = << >>
    /\ retention_list = retention_op.before

\* create_modulation_params has returned Ok(ModulationParams)
Constructed == mdltn_params.err = ""

\* C19: on the first family, for every spreading factor and bandwidth the
\* constructor accepts, whatever the coding rate and the frequency,
\* low_data_rate_optimize is 1 for SF11 at 125 kHz, SF12 at 125 kHz and SF12
\* at 250 kHz, and 0 for every other pair.
C19_LowDataRateOptimizeA ==
    (Constructed /\ Family(radio_type) = "A")
    => (mdltn_params.low_data_rate_optimize = 1
        <=> <<mdltn_params.spreading_factor, mdltn_params.bandwidth>>
              \in {<<11, "_125KHz">>, <<12, "_125KHz">>, <<12, "_250KHz">>})
       /\ mdltn_params.low_data_rate_optimize \in {0, 1}
       /\ ~(mdltn_params.bandwidth \in {"_250KHz", "_500KHz"}
            /\ mdltn_params.frequency_in_hz < 400000000)

C19_Witness ==
    /\ Constructed
    /\ radio_type = "SX1261"
    /\ mdltn_params.spreading_factor = 12
    /\ mdltn_params.bandwidth = "_250KHz"
    /\ mdltn_params.coding_rate = "_4_8"
    /\ mdltn_params.frequency_in_hz = 868000000
    /\ mdltn_params.low_data_rate_optimize = 1

\* C20: on the second family, for every spreading factor and bandwidth the
\* constructor accepts, low_data_rate_optimize is 1 exactly when the symbol
\* duration 2^SF / bandwidth exceeds 16 ms, that is when
\* 2^SF * 1000 > 16 * bandwidth in Hz.
C20_LowDataRateOptimizeB ==
    (Constructed /\ Family(radio_type) = "B")
    => (mdltn_params.low_data_rate_optimize = 1
        <=> (2 ^ mdltn_params.spreading_factor) * 1000
              > 16 * value_in_hz(mdltn_params.bandwidth))

\* create_modulation_params has returned for a chip of either family
ParamsReturned == mdltn_params.err # "none"

\* C21: on both families, create_modulation_params with 250 kHz or 500 kHz
\* and a frequency below 400,000,000 Hz never returns parameters, and fails
\* with InvalidBandwidthForFrequency unless a value was refused before that
\* test; at 400,000,000 Hz and above, or with a narrower bandwidth, it never
\* fails with InvalidBandwidthForFrequency.
C21_BandwidthForFrequency ==
    ParamsReturned
    => IF /\ mdltn_params.bandwidth \in {"_250KHz", "_500KHz"}
          /\ mdltn_params.frequency_in_hz < 400000000
       THEN /\ ~Constructed
            /\ mdltn_params.err \in ValidationErrors \cup {"InvalidBandwidthForFrequency"}
       ELSE mdltn_params.err # "InvalidBandwidthForFrequency"

\* 500 kHz one hertz below the limit, on the second family
C21_Witness ==
    /\ radio_type = "SX1276"
    /\ mdltn_params.bandwidth = "_500KHz"
    /\ mdltn_params.frequency_in_hz = 399999999
    /\ mdltn_params.err = "InvalidBandwidthForFrequency"

PacketParamsReturned == pkt_params.name # "none"

\* C22: on the second family, create_tx_packet_params and
\* create_rx_packet_params fail with InvalidSF6ExplicitHeaderRequest when the
\* modulation parameters have spreading factor 6 and implicit_header is
\* false; otherwise they succeed and the PacketParams holds the given fields
\* unchanged (payload length 0 for send, the given maximum for receive).  On
\* the first family the other constructor runs: it never returns that error.
C22_SF6ExplicitHeader ==
    PacketParamsReturned
    => IF Family(radio_type) = "B"
       THEN IF mdltn_params.spreading_factor = 6 /\ ~pkt_params.args.implicit_header
            THEN pkt_params.err = "InvalidSF6ExplicitHeaderRequest"
            ELSE /\ pkt_params.err = ""
                 /\ pkt_params.params = pkt_params.args
                 /\ pkt_params.params.payload_length =
                       (IF pkt_params.name = "create_tx_packet_params" THEN 0 ELSE 255)
       ELSE /\ pkt_params.err = ""
            /\ pkt_params.params.implicit_header = pkt_params.args.implicit_header
            /\ pkt_params.params.preamble_length >= pkt_params.args.preamble_length

C22_Witness ==
    /\ PacketParamsReturned
    /\ radio_type = "SX1276"
    /\ mdltn_params.spreading_factor = 6
    /\ ~pkt_params.args.implicit_header
    /\ pkt_params.name = "create_rx_packet_params"
    /\ pkt_params.err = "InvalidSF6ExplicitHeaderRequest"

\* flags that report progress of a reception, neither an error nor a completion
ProgressFlags == {"PREAMBLE_DETECTED", "SYNCWORD_VALID", "HEADER_VALID"}

\* C23: while the orchestrator is in a receive mode, process_irq called by rx
\* does not return Ok on a bitmap that holds progress flags only (preamble
\* detected, syncword valid, header valid): on such a bitmap it waits for the
\* next interrupt.
C23_ProgressOnlyContinues ==
    (/\ Returned("rx")
     /\ IsRx(pre.mode)
     /\ pirq # << >>
     /\ pirq[1].ok)
    => ~(LastIrq # {} /\ LastIrq \subseteq ProgressFlags)

\* the mode handed to process_irq by the last operation
ActiveMode == IF op.name = "tx" THEN "Transmit" ELSE pre.mode

\* process_irq of the last operation returned from its classification of
\* the last bitmap it read (not from a failed wait, read or clear)
Classified ==
    /\ phase = "returned"
    /\ pirq # << >>
    /\ irqs # << >>
    /\ pirq[1].err \notin PollErrors(Family(radio_type))

TimeoutFlags == {"RX_TX_TIMEOUT", "RX_TIMEOUT"}
CadFlags == {"CAD_DONE", "CAD_ACTIVITY_DETECTED"}

\* the completion flags of b that do not belong to mode m
Mismatched(m, b, rx_modes) ==
    {x \in b : \/ x = "TX_DONE" /\ m # "Transmit"
               \/ x = "RX_DONE" /\ m \notin rx_modes
               \/ x \in CadFlags /\ m # "ChannelActivityDetection"}

\* the error a bitmap without header error is to be classified as, given
\* which modes count as receiving and which as sending for a timeout flag;
\* "" where nothing is laid down
Classification(m, b, rx_modes, tx_modes) ==
    IF "CRC_ERROR" \in b
    THEN (IF m \in rx_modes THEN "CRCErrorOnReceive" ELSE "CRCErrorUnexpected")
    ELSE IF b \cap TimeoutFlags # {}
    THEN (IF m \in tx_modes THEN "TransmitTimeout"
          ELSE IF m \in rx_modes THEN "ReceiveTimeout" ELSE "TimeoutUnexpected")
    ELSE IF "TX_DONE" \in b /\ m # "Transmit" THEN "TransmitDoneUnexpected"
    ELSE IF "RX_DONE" \in b /\ m \notin rx_modes THEN "ReceiveDoneUnexpected"
    ELSE IF b \cap CadFlags # {} /\ m # "ChannelActivityDetection" THEN "CADUnexpected"
    ELSE ""

ClassifiedAs(rx_modes, tx_modes) ==
    (Classified /\ "HEADER_ERROR" \notin LastIrq)
    => /\ Classification(ActiveMode, LastIrq, rx_modes, tx_modes) # ""
          => pirq[1].err = Classification(ActiveMode, LastIrq, rx_modes, tx_modes)
       /\ pirq[1].ok => Mismatched(ActiveMode, LastIrq, rx_modes) = {}

\* C24 as stated: on both families a CRC error is CRCErrorOnReceive and a
\* timeout ReceiveTimeout in Receive and ReceiveDutyCycle, a timeout is
\* TransmitTimeout in Transmit, completion flags outside their mode are the
\* three Unexpected errors, and no mismatched completion flag is reported Ok.
C24_ClassificationAsStated ==
    ClassifiedAs({"Receive", "ReceiveDutyCycle"}, {"Transmit"})

\* C24 amended: as stated on the first family; on the second family Receive
\* is the only receive mode (in ReceiveDutyCycle a CRC error is
\* CRCErrorUnexpected and a timeout TimeoutUnexpected) and its timeout flag,
\* the receive timeout, is TimeoutUnexpected in Transmit as in every mode
\* but Receive.
C24_ClassificationPerFamily ==
    IF Family(radio_type) = "A"
    THEN ClassifiedAs({"Receive", "ReceiveDutyCycle"}, {"Transmit"})
    ELSE ClassifiedAs({"Receive"}, {})

\* a receive timeout read on the second family while the mode is Transmit
C24_Witness ==
    /\ Classified
    /\ Family(radio_type) = "B"
    /\ op.name = "tx"
    /\ LastIrq = {"RX_TIMEOUT", "TX_DONE"}
    /\ pirq[1].err = "TimeoutUnexpected"

\* the receive modes of the chip's family in process_irq
FamilyRxModes ==
    IF Family(radio_type) = "A" THEN {"Receive", "ReceiveDutyCycle"} ELSE {"Receive"}

\* C25: classification takes the first rule that applies, in a fixed order:
\* header error, then CRC error, then timeout decide the result before any
\* completion flag; then transmit-done, receive-done and CAD flags outside
\* their mode decide it, in this order, before any plain completion or
\* progress flag.  So Ok is returned only for a bitmap with no error flag
\* and no mismatched completion flag, and receive-done with CRC error in
\* Receive mode is CRCErrorOnReceive.
C25_FirstMatchPrecedence ==
    Classified
    => LET b == LastIrq
           m == ActiveMode
           e == pirq[1].err
           wrong == Mismatched(m, b, FamilyRxModes)
       IN /\ IF "HEADER_ERROR" \in b THEN e = "HeaderError"
             ELSE IF "CRC_ERROR" \in b
             THEN e \in {"CRCErrorOnReceive", "CRCErrorUnexpected"}
             ELSE IF b \cap TimeoutFlags # {}
             THEN e \in {"TransmitTimeout", "ReceiveTimeout", "TimeoutUnexpected"}
             ELSE IF "TX_DONE" \in wrong THEN e = "TransmitDoneUnexpected"
             ELSE IF "RX_DONE" \in wrong THEN e = "ReceiveDoneUnexpected"
             ELSE IF wrong # {} THEN e = "CADUnexpected"
             ELSE e = ""
          /\ ("RX_DONE" \in b /\ "CRC_ERROR" \in b /\ "HEADER_ERROR" \notin b
              /\ m = "Receive")
             => e = "CRCErrorOnReceive"

\* receive-done together with CRC error, read in Receive mode
C25_Witness ==
    /\ Classified
    /\ radio_type = "SX1276"
    /\ op.name = "rx"
    /\ ActiveMode = "Receive"
    /\ LastIrq = {"RX_DONE", "CRC_ERROR"}
    /\ pirq[1].err = "CRCErrorOnReceive"
    /\ ~result.ok

\* the chip-level routine followed is name, and it has returned
KindReturned(name) == kind_call.name = name

\* the value of its transfer aimed at target (-1 when it issued none)
ValueTo(target) ==
    LET hits == {i \in 1..Len(kind_call.transfers) :
                   kind_call.transfers[i].target = target}
    IN IF hits = {} THEN -1 ELSE kind_call.transfers[CHOOSE i \in hits : TRUE].value

\* C26: family A encodes a requested symbol count n, with c = min(n, 248), as
\* a command byte mant * 2^(2*exp+1) with mant <= 31 that fits 8 bits, is at
\* least c and exceeds it by less than one step 2^(2*exp+1); the second, raw
\* register write carries exp + 8*mant, fits 8 bits, and is issued exactly
\* when n is not 0
C26_SymbolTimeoutEncoding ==
    (KindReturned("set_lora_symbol_num_timeout") /\ Family(radio_type) = "A") =>
        LET n == kind_call.nums[1]
            c == IF n < 248 THEN n ELSE 248
            byte == ValueTo("SetLoRaSymbTimeout")
            raw == ValueTo("SynchTimeout")
            Encodes(mant, exp) ==
                /\ mant <= 31
                /\ byte = mant * 2^((2 * exp) + 1)
                /\ byte <= 255
                /\ byte >= c
                /\ byte - c < 2^((2 * exp) + 1)
        IN /\ Len(kind_call.transfers) >= 1
           /\ kind_call.transfers[1].target = "SetLoRaSymbTimeout"
           /\ IF raw = -1
              THEN \E mant \in 0..31, exp \in 0..3 : Encodes(mant, exp)
              ELSE /\ raw <= 255
                   /\ Encodes(raw \div 8, raw % 8)
           /\ n = 0 => raw = -1
           /\ (n # 0 /\ (kind_call.result.ok \/ Len(kind_call.transfers) > 1))
                  => raw # -1
           /\ Len(kind_call.transfers) <= 2

C26_Witness ==
    /\ KindReturned("set_lora_symbol_num_timeout")
    /\ radio_type = "SX1261"
    /\ kind_call.nums[1] = 65
    /\ kind_call.result.ok
    /\ ValueTo("SetLoRaSymbTimeout") = 72
    /\ ValueTo("SynchTimeout") = 73

\* the receive start followed got past the duty-cycle test and the antenna
\* switch, the two things family B's do_rx does before it looks at the timeout
ReachedTimeoutB ==
    /\ KindReturned("do_rx")
    /\ Family(radio_type) = "B"
    /\ "duty_cycle" \notin kind_call.flags
    /\ kind_call.result.err # "RfSwitchRx"

\* C27 as stated: on family B every receive start that requests a symbol
\* timeout above 255 fails with InvalidSymbolTimeout and writes nothing to the
\* symbol-timeout register; a request of at most 255 writes that exact value
C27_SymbolTimeoutAsStated ==
    ReachedTimeoutB =>
        IF kind_call.nums[1] > 255
        THEN /\ kind_call.result.err = "InvalidSymbolTimeout"
             /\ ValueTo("RegSymbTimeoutLsb") = -1
        ELSE ValueTo("RegSymbTimeoutLsb") = kind_call.nums[1]

\* C27: on family B a single-shot receive start that requests a symbol
\* timeout above 255 fails with InvalidSymbolTimeout and writes nothing to the
\* symbol-timeout register, and one that requests at most 255 writes that
\* exact value; a continuous receive start writes 0 whatever was requested and
\* never fails with InvalidSymbolTimeout; a start refused for its duty-cycle
\* parameters or stopped by the antenna switch writes nothing
C27_SymbolTimeoutSingleShot ==
    (KindReturned("do_rx") /\ Family(radio_type) = "B") =>
        IF ~ReachedTimeoutB
        THEN kind_call.transfers \in {<< >>, << Step("switch", "enable_rf_switch_rx", 0) >>}
        ELSE IF "rx_continuous" \in kind_call.flags
        THEN /\ kind_call.result.err # "InvalidSymbolTimeout"
             /\ ValueTo("RegSymbTimeoutLsb") = 0
        ELSE IF kind_call.nums[1] > 255
        THEN /\ kind_call.result.err = "InvalidSymbolTimeout"
             /\ ValueTo("RegSymbTimeoutLsb") = -1
        ELSE ValueTo("RegSymbTimeoutLsb") = kind_call.nums[1]

C27_Witness ==
    /\ ReachedTimeoutB
    /\ "rx_continuous" \notin kind_call.flags
    /\ kind_call.nums[1] = 256
    /\ kind_call.result.err = "InvalidSymbolTimeout"
    /\ kind_call.transfers = << Step("switch", "enable_rf_switch_rx", 0) >>

\* the output powers the chip accepts
PowerRange ==
    IF radio_type = "SX1261" THEN -17..15
    ELSE IF Family(radio_type) = "A" THEN -9..22
    ELSE IF "boosted" \in kind_call.flags THEN 2..20
    ELSE -4..14

\* C28: a requested power outside the chip's range (SX1261: -17..15 dBm,
\* other family A chips: -9..22, family B boosted: 2..20, not boosted: -4..14)
\* returns InvalidOutputPower, and 15 dBm on SX1261 with a modulation context
\* below 400 MHz returns InvalidOutputPowerForFrequency; in each rejected case
\* no transport read or write has been issued, and no other request is
\* rejected with either error
C28_PowerFailsFast ==
    KindReturned("set_tx_power_and_ramp_time") =>
        LET output_power == kind_call.nums[1]
        IN IF output_power \notin PowerRange
           THEN /\ kind_call.result.err = "InvalidOutputPower"
                /\ kind_call.transfers = << >>
           ELSE IF /\ radio_type = "SX1261"
                   /\ output_power = 15
                   /\ "mdltn" \in kind_call.flags
                   /\ kind_call.nums[2] < 400000000
           THEN /\ kind_call.result.err = "InvalidOutputPowerForFrequency"
                /\ kind_call.transfers = << >>
           ELSE kind_call.result.err \notin
                    {"InvalidOutputPower", "InvalidOutputPowerForFrequency"}

C28_Witness ==
    /\ KindReturned("set_tx_power_and_ramp_time")
    /\ radio_type = "STM32WLSX1262"
    /\ kind_call.nums[1] = 23
    /\ kind_call.result.err = "InvalidOutputPower"
    /\ kind_call.transfers = << >>

\* positions in the last transaction's trace of the operations named in ops
At(ops) == {i \in 1..Len(transaction.trace) : transaction.trace[i].op \in ops}

\* positions of its write, flush and transfer operations that failed
FailedExchanges ==
    {i \in At({"write", "flush", "transfer"}) : ~transaction.trace[i].ok}

\* C29: in write, read and read-with-status, once chip-select is asserted a
\* deselect is attempted before the call returns: after a failed byte write,
\* flush or transfer the deselect is attempted and the call returns the SPI
\* error whatever the deselect returned; on the success path the deselect
\* precedes the busy-wait, and a sleep write performs no busy-wait
C29_DeselectOnEveryPath ==
    transaction.name # "none" =>
        LET t == transaction.trace
            n == Len(t)
        IN /\ n >= 1 /\ At({"set_nss_low"}) = {1}
           /\ t[1].ok => \E i \in 2..n : At({"set_nss_high"}) = {i}
           /\ ~t[1].ok => n = 1
           /\ FailedExchanges # {} =>
                /\ t[n].op = "set_nss_high"
                /\ \A i \in FailedExchanges : i >= n - 2
                /\ transaction.result = Err("SPI")
                /\ At({"wait_on_busy"}) = {}
           /\ transaction.result.ok =>
                /\ FailedExchanges = {}
                /\ \A i \in 1..n : t[i].ok
                /\ \A i \in At({"set_nss_high"}), j \in At({"wait_on_busy"}) : i < j
                /\ (transaction.name = "write" /\ transaction.is_sleep_command)
                       => t[n].op = "set_nss_high"
                /\ ~(transaction.name = "write" /\ transaction.is_sleep_command)
                       => t[n].op = "wait_on_busy"
           /\ (transaction.name = "write" /\ transaction.is_sleep_command)
                  => At({"wait_on_busy"}) = {}

C29_Witness ==
    /\ transaction.name = "read_with_status"
    /\ transaction.buffers = 1
    /\ transaction.items = 1
    /\ transaction.result = Err("SPI")
    /\ transaction.trace =
         << BusOp("set_nss_low", TRUE),
            BusOp("write", TRUE), BusOp("flush", TRUE),
            BusOp("transfer", FALSE), BusOp("flush", TRUE),
            BusOp("set_nss_high", FALSE) >>

\* positions, among the calls of the last operation, of the interrupt-mask
\* programming that follows the orchestrator setting its mode to an
\* operating mode
ModeSetAt ==
    {i \in 1..Len(calls) :
       /\ calls[i].name = "set_irq_params"
       /\ calls[i].mode \in {"Transmit", "Receive", "ReceiveDutyCycle",
                             "ChannelActivityDetection"}}

\* C30: whenever tx, prepare_for_rx or prepare_for_cad returns an error after
\* the orchestrator has set its mode to Transmit, Receive, ReceiveDutyCycle or
\* ChannelActivityDetection, a set_standby has been issued to the chip after
\* that and, if it succeeded, the mode is Standby on return
C30_FailureRecoversToStandby ==
    (/\ phase = "returned"
     /\ op.name \in {"tx", "prepare_for_rx", "prepare_for_cad"}
     /\ ~result.ok
     /\ ModeSetAt # {})
    => \E i \in ModeSetAt : \E j \in (i + 1)..Len(calls) :
          /\ calls[j].name = "set_standby"
          /\ (calls[j].err = "" => radio_mode = "Standby")

\* C31: every init, also one called again while the mode is Standby, Transmit,
\* Receive, ReceiveDutyCycle or ChannelActivityDetection, calls ensure_ready
\* with mode Sleep right after the hardware reset
C31_InitEnsuresReadyFromSleep ==
    (phase = "returned" /\ op.name \in {"new", "init"} /\ Len(calls) >= 2)
    => /\ calls[1].name = "reset"
       /\ calls[2].name = "ensure_ready"
       /\ calls[2].mode = "Sleep"

\* C32: on family A, for every frequency followed in 150 MHz .. 960 MHz the
\* step count sent is f * 2^25 / 32,000,000 rounded to the nearest integer,
\* and no intermediate value overflows 32 bits.  With f = q * 15625 + m the
\* exact value is q * 2^14 + m * 2^14 / 15625, so the count is nearest when
\* its distance from that, times 15625, is less than half of 15625
C32_PllStepNearest ==
    (KindReturned("set_channel") /\ Family(radio_type) = "A") =>
        LET f == kind_call.nums[1]
            q == f \div 15625
            m == f % 15625
            sent == ValueTo("SetRFFrequency")
            rest == sent - (q * 16384)
            off == (rest * 15625) - (m * 16384)
        IN /\ sent >= 0
           /\ 2 * off < 15625
           /\ 2 * off > -15625
           /\ q * 16384 <= 2147483647 - 16384
           /\ (m * 16384) + 7812 <= 2147483647

C32_Witness ==
    /\ KindReturned("set_channel")
    /\ radio_type = "SX1261"
    /\ kind_call.nums[1] = 868000000
    /\ kind_call.result.ok
    /\ ValueTo("SetRFFrequency") = 910163968

\* C33: on family A the power byte of the transmit-parameters command is the
\* request's 8-bit two's complement (p mod 256: -17 gives 239, -9 gives 247)
\* for every accepted power that is not table-mapped, and the table's fixed
\* byte (14 on SX1261 for 15, 14, 10; 22 otherwise for 22, 20, 17, 14) for
\* the table-mapped ones
C33_PowerByteTwosComplement ==
    (/\ KindReturned("set_tx_power_and_ramp_time")
     /\ Family(radio_type) = "A"
     /\ ValueTo("SetTxParams") # -1)
    => LET p == kind_call.nums[1]
           mapped == IF radio_type = "SX1261" THEN {15, 14, 10} ELSE {22, 20, 17, 14}
       IN /\ p \in PowerRange
          /\ ValueTo("SetTxParams") =
                IF p \in mapped THEN (IF radio_type = "SX1261" THEN 14 ELSE 22)
                ELSE IF p < 0 THEN 256 + p
                ELSE p

C33_Witness ==
    /\ KindReturned("set_tx_power_and_ramp_time")
    /\ radio_type = "SX1261"
    /\ kind_call.nums[1] = -17
    /\ kind_call.result.ok
    /\ ValueTo("SetTxParams") = 239

\* C39: on family B, for every accepted power request the output-power value
\* or-ed into the PA configuration register lies in 0..15
C39_OutputPowerField ==
    (/\ KindReturned("set_tx_power_and_ramp_time")
     /\ Family(radio_type) = "B"
     /\ ValueTo("RegPaConfig") # -1)
    => ValueTo("RegPaConfig") \in 0..15

\* the error and completion flags of either family
TerminalFlags ==
    {"HEADER_ERROR", "CRC_ERROR", "RX_TX_TIMEOUT", "RX_TIMEOUT",
     "TX_DONE", "RX_DONE", "CAD_DONE"}

\* the steps of the process_irq call followed that belong to its loop's
\* wait, read and clear
LoopSteps ==
    SelectSeq(kind_call.transfers,
              LAMBDA st : st.target \in {"await_irq", "GetIrqStatus", "ClrIrqStatus",
                                         "RegIrqFlags"})

\* the call followed returned a classification of the last bitmap it read
IrqClassified ==
    /\ kind_call.irqs # << >>
    /\ kind_call.result.ok \/ kind_call.result.err \notin {"Irq", "OpError", "SPI"}

\* the projection of ProcessIrqSteps on bitmaps and result is ProcessIrq
ProcessIrqStepsAgree ==
    \A mode \in RadioModes, rx_cont \in BOOLEAN, want_cad \in BOOLEAN :
       {[irqs |-> r.irqs, res |-> r.res] :
           r \in ProcessIrqSteps(radio_type, mode, rx_cont, want_cad)}
       = ProcessIrq(radio_type, mode, rx_cont, want_cad)

\* C34: each iteration of process_irq performs, in order, one interrupt wait,
\* one read of the bitmap and one clear (family A of exactly the bits read,
\* family B of all) before classifying, also when the classification is an
\* error; it terminates on a bitmap that holds an error or completion flag,
\* and iterates again only on bitmaps that hold neither
C34_WaitReadClearClassify ==
    KindReturned("process_irq") =>
        LET t == LoopSteps
            n == Len(kind_call.irqs)
            fam == Family(radio_type)
        IN /\ \A i \in 1..Len(t) :
                t[i].kind = CASE i % 3 = 1 -> "wait" [] i % 3 = 2 -> "read"
                              [] OTHER -> "write"
           /\ \A i \in 1..Len(t) :
                (i % 3 = 0) => t[i].bits = IF fam = "A" THEN t[i - 1].bits
                                           ELSE IrqFlags("B")
           /\ Len(t) >= 3 * n
           /\ \A j \in 1..n : t[(3 * j) - 1].bits = kind_call.irqs[j]
           /\ IrqClassified =>
                /\ Len(t) = 3 * n
                /\ \A i \in 1..Len(kind_call.transfers) :
                      kind_call.transfers[i].target \in {"RTCCtrl", "EvtClr"} => i > 3 * n
           /\ \A i \in 1..Len(t) :
                (i % 3 = 2 /\ t[i].bits \cap TerminalFlags # {}) => Len(t) <= i + 1
           /\ \A i \in 1..Len(t) :
                (i % 3 = 2 /\ Len(t) > i + 1) => t[i].bits \cap TerminalFlags = {}

C34_Witness ==
    /\ KindReturned("process_irq")
    /\ radio_type = "SX1276"
    /\ kind_call.mode = "Receive"
    /\ kind_call.irqs = << {"HEADER_VALID"}, {"RX_DONE", "CRC_ERROR"} >>
    /\ kind_call.result.err = "CRCErrorOnReceive"
    /\ Len(kind_call.transfers) = 6
    /\ kind_call.transfers[6].kind = "write"

\* the switch positions the claim allows in a mode
SwitchAllowed(mode) ==
    CASE mode = "Transmit" -> {"off", "tx"}
      [] mode \in {"Receive", "ReceiveDutyCycle", "ChannelActivityDetection"} ->
           {"off", "rx"}
      [] OTHER -> {"off"}

\* C35: while an orchestrator exists the antenna switch is enabled for
\* transmit only in mode Transmit, enabled for receive only in mode Receive,
\* ReceiveDutyCycle or ChannelActivityDetection, and disabled whenever the
\* mode is Sleep or Standby.  By induction over the operations: new leaves
\* the switch, wherever the board had it, in a position its mode allows, and
\* every other operation takes each position allowed in the mode it started
\* in to a position allowed in the mode it ends in.
C35_SwitchFollowsMode ==
    (phase = "returned" /\ op.name # "none" /\ ~(op.name = "new" /\ ~result.ok)) =>
        SwitchAfter(radio_type,
                    IF op.name = "new" THEN {"unknown"} ELSE SwitchAllowed(pre.mode),
                    calls)
            \subseteq SwitchAllowed(radio_mode)

C35_Witness ==
    /\ phase = "returned"
    /\ op.name = "prepare_for_rx"
    /\ result.err = "RfSwitchRx"
    /\ pre.mode = "Transmit"
    /\ calls[2].name = "set_standby"
    /\ calls[2].err = "RfSwitchRx"
    /\ radio_mode = "Transmit"
    /\ SwitchAfter(radio_type, {"tx"}, calls) = {"tx", "off"}

\* C37: the continuous-receive-in-progress flag is true only while the
\* orchestrator's mode is Receive
C37_ContinuousOnlyInReceive ==
    (phase \in {"ready", "returned"} /\ rx_continuous) => radio_mode = "Receive"

\* the chip-level calls that configure the chip
ConfigurationCalls ==
    {"set_modulation_params", "set_packet_params", "calibrate_image", "set_channel",
     "set_payload", "set_tx_power_and_ramp_time", "set_tx_rx_buffer_base_address"}

\* the operation followed issued the call `name` and it returned Ok
Succeeded(name) ==
    \E i \in 1..Len(calls) : calls[i].name = name /\ calls[i].err = ""

\* C36: the mode becomes Standby only right after a successful set_standby
\* and Sleep only right after a successful set_sleep, and the configuration
\* calls are issued only in mode Standby.  An operation that stops at a failing
\* call returns with the mode it held when it issued that call, so the mode
\* at every call is read from the operations that fail there: a configuration
\* call that fails leaves Standby, an operation that stops before its
\* set_standby (set_sleep) has succeeded has not changed the mode to Standby
\* (Sleep), and one that stops right after it has.
C36_ModeDiscipline ==
    (phase = "returned" /\ op.name # "none") =>
        /\ (calls # << >> /\ calls[Len(calls)].err # ""
               /\ calls[Len(calls)].name \in ConfigurationCalls)
              => radio_mode = "Standby"
        /\ (radio_mode = "Standby" /\ pre.mode # "Standby") => Succeeded("set_standby")
        /\ (radio_mode = "Sleep" /\ pre.mode # "Sleep") => Succeeded("set_sleep")
        /\ \A i \in 1..Len(calls) :
              (calls[i].err = "" /\ (i = Len(calls) \/ calls[i + 1].err # ""))
                 => /\ calls[i].name = "set_standby" => radio_mode = "Standby"
                    /\ calls[i].name = "set_sleep" => radio_mode = "Sleep"

C36_Witness ==
    /\ phase = "returned"
    /\ op.name = "tx"
    /\ pre.mode = "Receive"
    /\ Len(calls) = 6
    /\ calls[2].name = "set_standby"
    /\ calls[6].name = "set_payload"
    /\ calls[6].err = "SPI"
    /\ radio_mode = "Standby"

\* C38: on the first family no packet status computation overflows 8-bit
\* signed arithmetic: for every raw SNR byte the reported SNR is
\* floor((int8(raw) + 2) / 4) and for every raw RSSI byte the reported RSSI
\* is floor(-raw / 2)
C38_PacketStatusExact ==
    (KindReturned("get_rx_packet_status") /\ kind_call.nums # << >>) =>
        LET rssi_raw == kind_call.nums[1]
            snr_raw == kind_call.nums[2]
            v == IF snr_raw >= 128 THEN snr_raw - 256 ELSE snr_raw
        IN  /\ kind_call.result.ok
            /\ LET rssi == kind_call.result.info[1]
                   snr == kind_call.result.info[2]
               IN /\ 2 * rssi <= -rssi_raw /\ -rssi_raw < (2 * rssi) + 2
                  /\ 4 * snr <= v + 2 /\ v + 2 < (4 * snr) + 4

====
